---- MODULE Spec2Model ----
(***************************************************************************)
(* Model of the static-analysis core of ai-code-fixer-backend:             *)
(*   src/src/api/utils/staticAnalyzer.js  (path helpers, analyzeCode,      *)
(*                                          sparseCheckout, adapters)      *)
(*   src/src/api/utils/sparseCheckout.js  (stand-alone sparse checkout)    *)
(* Strings are sequences of one-character strings, so that prefix,         *)
(* substring, trim, split and path normalisation are computed as the       *)
(* JavaScript code computes them.                                          *)
(***************************************************************************)
EXTENDS Integers, Sequences, FiniteSets, TLC

VARIABLES sj, vp, ex, sr, np, fc, co, scan, now, fsDirs, run

vars == <<sj, vp, ex, sr, np, fc, co, scan, now, fsDirs, run>>

(***************************************************************************)
(* Bounds of the model.                                                    *)
(***************************************************************************)
\* longest list of segments handed to safeJoinPath
MaxSegs == 3
\* number of analyzeCode calls
NumRuns == 2
\* last value of the millisecond clock (Date.now()), counted from 0
MaxClock == 1

(***************************************************************************)
(* String helpers (the String.prototype methods the code calls).           *)
(***************************************************************************)
StartsWith(s, p) == Len(p) <= Len(s) /\ SubSeq(s, 1, Len(p)) = p

Includes(s, p) ==
    \E i \in 1..(Len(s) - Len(p) + 1) : SubSeq(s, i, i + Len(p) - 1) = p

RECURSIVE TrimStart(_)
TrimStart(s) == IF s # <<>> /\ Head(s) = " " THEN TrimStart(Tail(s)) ELSE s

RECURSIVE TrimEnd(_)
TrimEnd(s) ==
    IF s # <<>> /\ s[Len(s)] = " " THEN TrimEnd(SubSeq(s, 1, Len(s) - 1)) ELSE s

Trim(s) == TrimEnd(TrimStart(s))

\* s.split(sep): the pieces between occurrences of the one-character sep
RECURSIVE SplitOn(_, _, _, _)
SplitOn(s, sep, i, cur) ==
    IF i > Len(s) THEN <<cur>>
    ELSE IF s[i] = sep THEN <<cur>> \o SplitOn(s, sep, i + 1, <<>>)
    ELSE SplitOn(s, sep, i + 1, Append(cur, s[i]))

Split(s, sep) == SplitOn(s, sep, 1, <<>>)

\* parts.join(sep)
RECURSIVE JoinWith(_, _)
JoinWith(parts, sep) ==
    IF parts = <<>> THEN <<>>
    ELSE IF Len(parts) = 1 THEN parts[1]
    ELSE parts[1] \o <<sep>> \o JoinWith(Tail(parts), sep)

(***************************************************************************)
(* Node's posix path module, as used by the path helpers.                  *)
(***************************************************************************)
DotDot == <<".", ".">>

\* normalizeString: drops "" and ".", resolves ".." against the segment before
RECURSIVE NormSegs(_, _, _)
NormSegs(segs, acc, allowAboveRoot) ==
    IF segs = <<>> THEN acc
    ELSE LET h == Head(segs)
             t == Tail(segs)
         IN IF h = <<>> \/ h = <<".">> THEN NormSegs(t, acc, allowAboveRoot)
            ELSE IF h = DotDot
                 THEN IF acc # <<>> /\ acc[Len(acc)] # DotDot
                      THEN NormSegs(t, SubSeq(acc, 1, Len(acc) - 1), allowAboveRoot)
                      ELSE IF allowAboveRoot
                           THEN NormSegs(t, Append(acc, DotDot), allowAboveRoot)
                           ELSE NormSegs(t, acc, allowAboveRoot)
                 ELSE NormSegs(t, Append(acc, h), allowAboveRoot)

PathIsAbsolute(p) == p # <<>> /\ Head(p) = "/"

PathNormalize(p) ==
    IF p = <<>> THEN <<".">>
    ELSE LET isAbs    == PathIsAbsolute(p)
             trailing == p[Len(p)] = "/"
             body     == JoinWith(NormSegs(Split(p, "/"), <<>>, ~isAbs), "/")
         IN IF body = <<>>
            THEN IF isAbs THEN <<"/">>
                 ELSE IF trailing THEN <<".", "/">> ELSE <<".">>
            ELSE LET b2 == IF trailing THEN body \o <<"/">> ELSE body
                 IN IF isAbs THEN <<"/">> \o b2 ELSE b2

RECURSIVE NonEmpty(_)
NonEmpty(parts) ==
    IF parts = <<>> THEN <<>>
    ELSE IF Head(parts) = <<>> THEN NonEmpty(Tail(parts))
    ELSE <<Head(parts)>> \o NonEmpty(Tail(parts))

PathJoin(parts) ==
    LET used == NonEmpty(parts)
    IN IF used = <<>> THEN <<".">> ELSE PathNormalize(JoinWith(used, "/"))

\* path.resolve(p) in a process whose working directory is cwd (absolute)
PathResolve(p, cwd) ==
    LET full == IF PathIsAbsolute(p) THEN p
                ELSE IF p = <<>> THEN cwd ELSE cwd \o <<"/">> \o p
    IN <<"/">> \o JoinWith(NormSegs(Split(full, "/"), <<>>, FALSE), "/")

(***************************************************************************)
(* safeJoinPath(baseDir, ...subPaths)                                      *)
(***************************************************************************)
Thrown(kind) == [ok |-> FALSE, value |-> <<>>, error |-> kind]
Returned(v) == [ok |-> TRUE, value |-> v, error |-> "none"]

\* the containment test of safeJoinPath with a plain prefix test in its place
InsideBaseNoSep(resolvedPath, resolvedBaseDir) ==
    StartsWith(resolvedPath, resolvedBaseDir)

InsideBase(resolvedPath, resolvedBaseDir) ==
    \/ StartsWith(resolvedPath, resolvedBaseDir \o <<"/">>)
    \/ resolvedPath = resolvedBaseDir

\* safeJoinPath returning the joined path before it is resolved
safeJoinPathRaw(baseDir, subPaths, cwd) ==
    LET rawJoinedPath   == PathJoin(<<baseDir>> \o subPaths)
        resolvedPath    == PathResolve(rawJoinedPath, cwd)
        resolvedBaseDir == PathResolve(baseDir, cwd)
    IN IF ~InsideBase(resolvedPath, resolvedBaseDir)
       THEN Thrown("PathError")
       ELSE Returned(rawJoinedPath)

safeJoinPath(baseDir, subPaths, cwd) ==
    LET rawJoinedPath   == PathJoin(<<baseDir>> \o subPaths)
        resolvedPath    == PathResolve(rawJoinedPath, cwd)
        resolvedBaseDir == PathResolve(baseDir, cwd)
    IN IF ~InsideBase(resolvedPath, resolvedBaseDir)
       THEN Thrown("PathError")
       ELSE Returned(resolvedPath)

(***************************************************************************)
(* validatePmdRulesetPath(rulesetPath, baseDir)                            *)
(***************************************************************************)
HttpPrefix == <<"h", "t", "t", "p", ":", "/", "/">>
HttpsPrefix == <<"h", "t", "t", "p", "s", ":", "/", "/">>
CategoryPrefix == <<"c", "a", "t", "e", "g", "o", "r", "y", "/">>

\* validatePmdRulesetPath resolving a relative file against baseDir
validatePmdRulesetPathResolved(rulesetPath, baseDir) ==
    LET trimmedPath   == Trim(rulesetPath)
        isUrl         == StartsWith(trimmedPath, HttpPrefix)
                            \/ StartsWith(trimmedPath, HttpsPrefix)
        isPmdCategory == StartsWith(trimmedPath, CategoryPrefix)
    IN IF isUrl \/ isPmdCategory THEN Returned(trimmedPath)
       ELSE IF PathIsAbsolute(trimmedPath) THEN Thrown("PathError")
       ELSE IF Includes(trimmedPath, DotDot) THEN Thrown("PathError")
       ELSE safeJoinPath(baseDir, <<trimmedPath>>, <<"/">>)

validatePmdRulesetPath(rulesetPath, baseDir) ==
    LET trimmedPath   == Trim(rulesetPath)
        isUrl         == StartsWith(trimmedPath, HttpPrefix)
                            \/ StartsWith(trimmedPath, HttpsPrefix)
        isPmdCategory == StartsWith(trimmedPath, CategoryPrefix)
    IN IF isUrl \/ isPmdCategory THEN Returned(trimmedPath)
       ELSE IF PathIsAbsolute(trimmedPath) THEN Thrown("PathError")
       ELSE IF Includes(trimmedPath, DotDot) THEN Thrown("PathError")
       ELSE Returned(trimmedPath)

(***************************************************************************)
(* The error child_process.exec rejects with, and what each adapter makes  *)
(* of it.  code, message, stderr and stdout are the fields the code reads. *)
(***************************************************************************)
UpperCase == <<"A", "B", "C", "D", "E", "F", "G", "H", "I", "J", "K", "L", "M",
               "N", "O", "P", "Q", "R", "S", "T", "U", "V", "W", "X", "Y", "Z">>
LowerCase == <<"a", "b", "c", "d", "e", "f", "g", "h", "i", "j", "k", "l", "m",
               "n", "o", "p", "q", "r", "s", "t", "u", "v", "w", "x", "y", "z">>

ToLowerCase(s) ==
    [i \in 1..Len(s) |->
        IF \E k \in 1..26 : UpperCase[k] = s[i]
        THEN LowerCase[CHOOSE k \in 1..26 : UpperCase[k] = s[i]]
        ELSE s[i]]

\* the JSON documents among the outputs of the model
JsonTexts == {<<"[", "]">>, <<"{", "}">>}

\* JSON.parse: white space around the document is skipped
JsonParse(text) ==
    IF Trim(text) \in JsonTexts THEN Returned(Trim(text))
    ELSE Thrown("SyntaxError")

ThrownWith(kind, detail) == [ok |-> FALSE, value |-> detail, error |-> kind]

\* `${x || 'N/A'}`
OrNA(x) == IF x = <<>> THEN <<"N", "/", "A">> ELSE x

Tools == {"eslint", "pmd", "pylint", "phpcs"}

ToolName(tool) ==
    CASE tool = "eslint" -> <<"e", "s", "l", "i", "n", "t">>
      [] tool = "pmd" -> <<"p", "m", "d">>
      [] tool = "pylint" -> <<"p", "y", "l", "i", "n", "t">>
      [] OTHER -> <<"p", "h", "p", "c", "s">>

NotFoundPhrase(tool) == ToolName(tool) \o <<":", " ", "n", "o", "t", " ", "f", "o", "u", "n", "d">>

\* the error a failed JSON.parse throws inside the adapter's try block
SyntaxErrorOf(text) ==
    [code |-> <<>>, message |-> <<"U", "n", "e", "x", "p", "e", "c", "t", "e", "d", " ", "t", "o", "k", "e", "n">>, stderr |-> <<>>, stdout |-> <<>>]

\* runESLint's inner catch with the precedence of its two stderr tests swapped
runESLintCatchConfigFirst(error) ==
    LET trimmedStdout == Trim(error.stdout)
        lowerStderr   == ToLowerCase(error.stderr)
    IN IF trimmedStdout # <<>> /\ (StartsWith(trimmedStdout, <<"{">>)
                                    \/ StartsWith(trimmedStdout, <<"[">>))
       THEN IF JsonParse(trimmedStdout).ok THEN JsonParse(trimmedStdout)
            ELSE Thrown("ParseFailed")
       ELSE IF error.stderr # <<>> /\ (\/ Includes(lowerStderr, <<"c", "o", "n", "f", "i", "g", "u", "r", "a", "t", "i", "o", "n", " ", "e", "r", "r", "o", "r">>)
                                       \/ Includes(lowerStderr, <<"c", "a", "n", "n", "o", "t", " ", "f", "i", "n", "d", " ", "m", "o", "d", "u", "l", "e">>)
                                       \/ Includes(lowerStderr, <<"p", "a", "r", "s", "i", "n", "g", " ", "e", "r", "r", "o", "r">>))
       THEN ThrownWith("ConfigurationError", <<error.stderr>>)
       ELSE IF error.code = <<"E", "N", "O", "E", "N", "T">> \/ Includes(error.message, NotFoundPhrase("eslint"))
       THEN Thrown("ExecutableNotFound")
       ELSE ThrownWith("ExecutionFailed",
                       <<OrNA(error.code), OrNA(error.stderr), OrNA(error.stdout)>>)

\* runESLint's inner catch
runESLintCatch(error) ==
    LET trimmedStdout == Trim(error.stdout)
        lowerStderr   == ToLowerCase(error.stderr)
    IN IF trimmedStdout # <<>> /\ (StartsWith(trimmedStdout, <<"{">>)
                                    \/ StartsWith(trimmedStdout, <<"[">>))
       THEN IF JsonParse(trimmedStdout).ok THEN JsonParse(trimmedStdout)
            ELSE Thrown("ParseFailed")
       ELSE IF error.code = <<"E", "N", "O", "E", "N", "T">> \/ Includes(error.message, NotFoundPhrase("eslint"))
       THEN Thrown("ExecutableNotFound")
       ELSE IF error.stderr # <<>> /\ (\/ Includes(lowerStderr, <<"c", "o", "n", "f", "i", "g", "u", "r", "a", "t", "i", "o", "n", " ", "e", "r", "r", "o", "r">>)
                                       \/ Includes(lowerStderr, <<"c", "a", "n", "n", "o", "t", " ", "f", "i", "n", "d", " ", "m", "o", "d", "u", "l", "e">>)
                                       \/ Includes(lowerStderr, <<"p", "a", "r", "s", "i", "n", "g", " ", "e", "r", "r", "o", "r">>))
       THEN ThrownWith("ConfigurationError", <<error.stderr>>)
       ELSE ThrownWith("ExecutionFailed",
                       <<OrNA(error.code), OrNA(error.stderr), OrNA(error.stdout)>>)

\* runPMD's inner catch
runPMDCatch(error) ==
    IF error.stdout # <<>> /\ StartsWith(Trim(error.stdout), <<"{">>)
    THEN IF JsonParse(error.stdout).ok THEN JsonParse(error.stdout)
         ELSE Thrown("ParseFailed")
    ELSE IF error.code = <<"E", "N", "O", "E", "N", "T">> \/ Includes(error.message, NotFoundPhrase("pmd"))
    THEN Thrown("ExecutableNotFound")
    ELSE ThrownWith("ExecutionFailed",
                    <<OrNA(error.code), OrNA(error.stderr), OrNA(error.stdout)>>)

\* the outer catch of runPyLint / runPHPLint, for an error that is not
\* already one of the adapter's own
lintOuterCatch(tool, error) ==
    IF Includes(error.message, NotFoundPhrase(tool))
    THEN Thrown("ExecutableNotFound")
    ELSE Thrown("Unexpected")

\* runPyLint / runPHPLint after the linter's process rejected
runLintCatch(tool, error) ==
    IF error.stdout # <<>>
    THEN IF JsonParse(error.stdout).ok THEN JsonParse(error.stdout)
         ELSE lintOuterCatch(tool, SyntaxErrorOf(error.stdout))
    ELSE ThrownWith("ExecutionFailed", <<OrNA(error.code), OrNA(error.stderr)>>)

\* every adapter failing on any non-zero exit, whatever stdout holds
adapterCatchStrict(tool, error) ==
    ThrownWith("ExecutionFailed",
               <<OrNA(error.code), OrNA(error.stderr), OrNA(error.stdout)>>)

\* what the adapter of a tool does when the tool's process rejects
adapterCatch(tool, error) ==
    CASE tool = "eslint" -> runESLintCatch(error)
      [] tool = "pmd" -> runPMDCatch(error)
      [] OTHER -> runLintCatch(tool, error)

\* what the adapter does when the process exits with status zero
adapterResolved(tool, stdout) ==
    IF JsonParse(stdout).ok THEN JsonParse(stdout)
    ELSE CASE tool = "eslint" -> runESLintCatch(SyntaxErrorOf(stdout))
           [] tool = "pmd" -> runPMDCatch(SyntaxErrorOf(stdout))
           [] OTHER -> lintOuterCatch(tool, SyntaxErrorOf(stdout))

\* the command line of a tool as the shell names it
CommandOf(tool) ==
    CASE tool = "pmd" -> <<"/", "u", "s", "r", "/", "l", "o", "c", "a", "l", "/", "p", "m", "d", "/", "b", "i", "n", "/", "p", "m", "d">>
      [] OTHER -> ToolName(tool)

\* exec's error for an exit status: "Command failed: <cmd>\n<stderr>"
ExecError(command, code, stderr, stdout) ==
    [code |-> code, message |-> <<"C", "o", "m", "m", "a", "n", "d", " ", "f", "a", "i", "l", "e", "d", ":", " ">> \o command \o <<"\n">> \o stderr,
     stderr |-> stderr, stdout |-> stdout]

\* the shell cannot find the command: status 127, the shell's own wording
NotFoundErrors(command) ==
    {ExecError(command, <<"1", "2", "7">>, <<"/", "b", "i", "n", "/", "s", "h", ":", " ", "1", ":", " ">> \o command \o <<":", " ", "n", "o", "t", " ", "f", "o", "u", "n", "d">> \o <<"\n">>, <<>>),
     ExecError(command, <<"1", "2", "7">>, <<"/", "b", "i", "n", "/", "s", "h", ":", " ", "l", "i", "n", "e", " ", "1", ":", " ">> \o command \o <<":", " ", "c", "o", "m", "m", "a", "n", "d", " ", "n", "o", "t", " ", "f", "o", "u", "n", "d">> \o <<"\n">>, <<>>)}

\* `which <tool>` finds nothing: status 1, silent or with GNU which's line
WhichErrors(tool) ==
    {ExecError(<<"w", "h", "i", "c", "h", " ">> \o ToolName(tool), <<"1">>, <<>>, <<>>),
     ExecError(<<"w", "h", "i", "c", "h", " ">> \o ToolName(tool), <<"1">>,
               <<"w", "h", "i", "c", "h", ":", " ", "n", "o", " ">> \o ToolName(tool) \o <<" ", "i", "n", " ", "(", "/", "u", "s", "r", "/", "b", "i", "n", ")", "\n">>, <<>>)}

\* the tool ran and exited non-zero
RunErrors(tool) ==
    {ExecError(CommandOf(tool), <<"1">>, <<>>, <<"[", "]">>),
     ExecError(CommandOf(tool), <<"1">>, <<>>, <<"{", "}">>),
     ExecError(CommandOf(tool), <<"2">>, <<"C", "o", "n", "f", "i", "g", "u", "r", "a", "t", "i", "o", "n", " ", "e", "r", "r", "o", "r", ":", " ", "x">>, <<>>),
     ExecError(CommandOf(tool), <<"2">>, <<"o", "o", "p", "s">>, <<"N", "o", "t", " ", "J", "S", "O", "N">>)}

(***************************************************************************)
(* analyzeCode: the state of one call and of the file system and clock     *)
(* the calls share.  run[r].pc names the awaited operation in flight.      *)
(***************************************************************************)
Runs == 1..NumRuns

Languages == {"javascript", "typescript", "java", "python", "php", "ruby"}

\* the analyzers table
analyzers(language) ==
    CASE language \in {"javascript", "typescript"} -> "runESLint"
      [] language = "java" -> "runPMD"
      [] language = "python" -> "runPyLint"
      [] language = "php" -> "runPHPLint"
      [] OTHER -> "undefined"

NoBranch == <<>>
BranchMain == <<"m", "a", "i", "n">>
BranchMaster == <<"m", "a", "s", "t", "e", "r">>
RefsHeads == <<"r", "e", "f", "s", "/", "h", "e", "a", "d", "s", "/">>

\* branch names a remote may have, and the sets of heads the model draws from
HeadSets == { {BranchMain}, {BranchMaster}, {BranchMain, BranchMaster},
              {<<"m", "a", "i", "n", "l", "i", "n", "e">>, BranchMaster}, {<<"d", "e", "v">>}, {} }

HeadOrder == <<<<"d", "e", "v">>, BranchMain, <<"m", "a", "i", "n", "l", "i", "n", "e">>, BranchMaster>>

\* git ls-remote --heads origin: one "<sha>\trefs/heads/<name>\n" line per head
RECURSIVE ListRemoteFrom(_, _)
ListRemoteFrom(heads, i) ==
    IF i > Len(HeadOrder) THEN <<>>
    ELSE (IF HeadOrder[i] \in heads
          THEN <<"#", "\t">> \o RefsHeads \o HeadOrder[i] \o <<"\n">>
          ELSE <<>>) \o ListRemoteFrom(heads, i + 1)

listRemote(heads) == ListRemoteFrom(heads, 1)

\* _determineRemoteBranch: the branch it returns, NoBranch when it throws
determineRemoteBranch(remoteBranches, desiredBranch) ==
    IF Includes(remoteBranches, RefsHeads \o desiredBranch) THEN desiredBranch
    ELSE IF Includes(remoteBranches, RefsHeads \o BranchMain) THEN BranchMain
    ELSE IF Includes(remoteBranches, RefsHeads \o BranchMaster) THEN BranchMaster
    ELSE NoBranch

\* sparseCheckout's defaultBranch parameter, which analyzeCode never passes
DefaultBranch == BranchMain

\* extractRepoDetailsFromUrl: null unless the URL holds github.com/<owner>/<repo>
RepoUrls == {"github", "other"}
extractRepoDetailsFromUrl(url) == IF url = "github" THEN "details" ELSE "null"

\* generateFilePatterns: the common configuration files, then the language's
CommonPatterns == <<".eslintrc*", ".prettierrc*", "package.json", "pom.xml",
                    "requirements.txt", "composer.json">>

generateFilePatterns(language) ==
    CommonPatterns \o
        (CASE language = "javascript" -> <<"**/*.js", "**/*.jsx">>
           [] language = "typescript" -> <<"**/*.ts", "**/*.tsx", "tsconfig.json">>
           [] language = "java" -> <<"**/*.java">>
           [] language = "python" -> <<"**/*.py">>
           [] language = "php" -> <<"**/*.php">>
           [] OTHER -> <<>>)

\* options.specificFiles values of the model
SpecificFiles == {<<>>, <<"src/app.js">>}

\* the patterns of sparseCheckout
checkoutPatterns(specificFiles, language) ==
    IF Len(specificFiles) > 0 THEN specificFiles
    ELSE generateFilePatterns(language)

\* options.pmd.rulesets values of the model
RulesetNone == <<>>
RulesetOkBad == <<"c", "u", "s", "t", "o", "m", "/", "o", "k", ".", "x", "m", "l", ",", ".", ".", "/", "b", "a", "d", ".", "x", "m", "l">>
RulesetOk == <<"c", "u", "s", "t", "o", "m", "/", "o", "k", ".", "x", "m", "l">>
RulesetAbs == <<"/", "e", "t", "c", "/", "r", ".", "x", "m", "l">>
PmdRulesets == {RulesetNone, RulesetOkBad, RulesetOk, RulesetAbs}

\* options.eslint.configFile values of the model
ConfigBlank == <<" ">>
ConfigAbsolute == <<"/", "e", "t", "c", "/", "c", "f", "g", ".", "j", "s", "o", "n">>
ConfigNone == <<>>
ConfigInside == <<"c", "f", "g", ".", "j", "s", "o", "n">>
ConfigOutside == <<".", ".", "/", "c", "f", "g", ".", "j", "s", "o", "n">>
EslintConfigs == {ConfigNone, ConfigBlank, ConfigInside, ConfigOutside, ConfigAbsolute}

\* standardConfigs of runESLint
standardConfigs == <<<<".", "e", "s", "l", "i", "n", "t", "r", "c", ".", "j", "s">>, <<".", "e", "s", "l", "i", "n", "t", "r", "c", ".", "j", "s", "o", "n">>, <<".", "e", "s", "l", "i", "n", "t", "r", "c", ".", "y", "m", "l">>, <<".", "e", "s", "l", "i", "n", "t", "r", "c">>, <<"e", "s", "l", "i", "n", "t", ".", "c", "o", "n", "f", "i", "g", ".", "j", "s">>>>

\* the ESLint config files a checked-out workspace may hold
ConfigFileSets == {{}, {<<"e", "s", "l", "i", "n", "t", ".", "c", "o", "n", "f", "i", "g", ".", "j", "s">>}, {<<".", "e", "s", "l", "i", "n", "t", "r", "c", ".", "c", "j", "s">>}}

\* the `${...}` rendering of a non-negative integer
Digits == <<"0", "1", "2", "3", "4", "5", "6", "7", "8", "9">>

RECURSIVE ToDecimal(_)
ToDecimal(n) ==
    IF n < 10 THEN <<Digits[n + 1]>>
    ELSE ToDecimal(n \div 10) \o <<Digits[(n % 10) + 1]>>

\* os.tmpdir() and process.cwd()
TmpDir == <<"/", "t", "m", "p">>
Cwd == <<"/", "a", "p", "p">>

\* the custom config path of runESLint used as given, without safeJoinPath
customConfigPathUnchecked(directory, configFile) ==
    Returned(PathResolve(PathJoin(<<directory, Trim(configFile)>>), Cwd))

\* customConfigFullPath of runESLint for a non-empty options.eslint.configFile
customConfigPath(directory, configFile) ==
    safeJoinPath(directory, <<Trim(configFile)>>, Cwd)

\* hasAnyFile looking at the first name only
hasAnyFileFirstOnly(directory, fileNames, present) ==
    /\ fileNames[1] \in present
    /\ safeJoinPath(directory, <<fileNames[1]>>, Cwd).ok

\* hasAnyFile, in a directory that holds the files of present
hasAnyFile(directory, fileNames, present) ==
    \E i \in 1..Len(fileNames) :
        /\ fileNames[i] \in present
        /\ safeJoinPath(directory, <<fileNames[i]>>, Cwd).ok

\* uniqueDirName and tempDir of analyzeCode, for the clock value t
uniqueDirName(t) == <<"c", "o", "d", "e", "-", "a", "n", "a", "l", "y", "s", "i", "s", "-">> \o ToDecimal(t)
TempDirAt(t) == PathJoin(<<TmpDir, uniqueDirName(t)>>)

IdleRun == [pc |-> "idle", repoUrl |-> "github", language |-> "none",
            tempDir |-> <<>>, procs |-> <<>>, patterns |-> <<>>,
            remote |-> {}, branch |-> NoBranch,
            option |-> <<>>, present |-> {}, writes |-> 0, cmdConfig |-> <<>>,
            exe |-> "unknown", phase |-> "none", error |-> <<>>,
            outcome |-> "pending", warned |-> FALSE]

\* analyzeCode's catch without its finally: the call rejects at once
ThrowNoCleanup(rec, phase, err) ==
    [rec EXCEPT !.phase = phase,
                !.error = <<"StaticAnalysisFailed">> \o err,
                !.outcome = "rejected",
                !.pc = "done"]

\* analyzeCode's catch and finally: the error is wrapped and fs.rm begins
Throw(rec, phase, err) ==
    [rec EXCEPT !.phase = phase,
                !.error = <<"StaticAnalysisFailed">> \o err,
                !.pc = "rm"]

\* a sparseCheckout that starts over from git init when a step fails
ThrowCheckoutRetry(rec, err) ==
    [rec EXCEPT !.patterns = <<>>, !.remote = {}, !.branch = NoBranch,
                !.procs = Append(@, "git init"), !.pc = "git_init"]

\* sparseCheckout's catch: rethrows, wrapped, to analyzeCode
ThrowCheckout(rec, err) ==
    Throw([rec EXCEPT !.patterns = <<>>, !.remote = {}, !.branch = NoBranch],
          "checkout",
          <<"SparseCheckoutFailed">> \o err)

Exec(rec, proc, pc) == [rec EXCEPT !.procs = Append(@, proc), !.pc = pc]

\* a git command works only in an existing directory
GitCanSucceed(rec) == rec.tempDir \in fsDirs

\* rulesetOption of runPMD: the -R argument, or the Path Error it throws
DefaultRulesets == <<"c", "a", "t", "e", "g", "o", "r", "y", "/", "j", "a", "v", "a", "/", "b", "e", "s", "t", "p", "r", "a", "c", "t", "i", "c", "e", "s", ".", "x", "m", "l", ",", "c", "a", "t", "e", "g", "o", "r", "y", "/", "j", "a", "v", "a", "/", "e", "r", "r", "o", "r", "p", "r", "o", "n", "e", ".", "x", "m", "l">>

\* rulesetOption of runPMD without the filter that drops empty entries
pmdRulesetOptionUnfiltered(rulesets, directory) ==
    LET customRulesetStr == Trim(rulesets)
    IN IF rulesets = <<>> \/ customRulesetStr = <<>> THEN Returned(DefaultRulesets)
       ELSE LET parts   == Split(customRulesetStr, ",")
                results == [i \in 1..Len(parts) |->
                               validatePmdRulesetPath(parts[i], directory)]
            IN IF \E i \in 1..Len(parts) : ~results[i].ok
               THEN Thrown("PathError")
               ELSE Returned(JoinWith([i \in 1..Len(parts) |-> results[i].value],
                                      ","))

pmdRulesetOption(rulesets, directory) ==
    LET customRulesetStr == Trim(rulesets)
    IN IF rulesets = <<>> \/ customRulesetStr = <<>> THEN Returned(DefaultRulesets)
       ELSE LET parts   == Split(customRulesetStr, ",")
                results == [i \in 1..Len(parts) |->
                               validatePmdRulesetPath(parts[i], directory)]
            IN IF \E i \in 1..Len(parts) : ~results[i].ok
               THEN Thrown("PathError")
               ELSE LET validatedPaths ==
                            NonEmpty([i \in 1..Len(parts) |-> results[i].value])
                    IN IF validatedPaths # <<>>
                       THEN Returned(JoinWith(validatedPaths, ","))
                       ELSE Returned(DefaultRulesets)

\* the first lines of each analyzer, up to its first await
BeginAnalyzer(rec) ==
    CASE analyzers(rec.language) = "runESLint" ->
             {[rec EXCEPT !.pc = "eslint_access"]}
      [] analyzers(rec.language) = "runPMD" ->
             {IF pmdRulesetOption(rs, rec.tempDir).ok
              THEN Exec([rec EXCEPT !.option = rs], "pmd", "pmd_exec")
              ELSE Throw([rec EXCEPT !.option = rs], "analyze",
                         <<"PathError", "pmd">>) : rs \in PmdRulesets}
      [] analyzers(rec.language) \in {"runPyLint", "runPHPLint"} ->
             {Exec(rec, "which", "which_exec")}
      [] OTHER -> {Throw(rec, "select", <<"UnsupportedLanguage">>)}

\* the ESLint command is built and started
BeginEslintExec(rec) == Exec(rec, "eslint", "eslint_exec")

\* standardizeResults ran; addFileContents reads the files
BeginAttach(rec) == [rec EXCEPT !.pc = "attach"]

\* what each adapter can make of its process, by whether the executable
\* was there to run
ZeroExitStdouts == {<<"[", "]">>, <<"{", "}">>, <<"N", "o", "t", " ", "J", "S", "O", "N">>}

RanOutcomes ==
    [tool \in Tools |->
        {adapterResolved(tool, stdout) : stdout \in ZeroExitStdouts}
            \cup {adapterCatch(tool, error) : error \in RunErrors(tool)}]

AbsentOutcomes ==
    [tool \in Tools |->
        IF tool \in {"eslint", "pmd"}
        THEN {adapterCatch(tool, error) : error \in NotFoundErrors(CommandOf(tool))}
        ELSE {lintOuterCatch(tool, error) : error \in WhichErrors(tool)}]

\* the tool of runPyLint / runPHPLint
LintTool(language) == IF language = "python" THEN "pylint" ELSE "phpcs"

\* the adapter settled: its result goes to standardizeResults, its error to
\* analyzeCode's catch
Settle(rec, exe, prefix, result) ==
    LET left == [rec EXCEPT !.exe = exe, !.option = <<>>, !.present = {},
                            !.writes = 0, !.cmdConfig = <<>>]
    IN IF result.ok THEN BeginAttach(left)
       ELSE Throw(left, "analyze", <<prefix, result.error>>)

Set(r, rec) == run' = [run EXCEPT ![r] = rec]

(***************************************************************************)
(* Actions of analyzeCode, one per resumption after an await.              *)
(***************************************************************************)
Tick ==
    /\ now < MaxClock
    /\ now' = now + 1
    /\ UNCHANGED <<fsDirs, run, sj, vp, ex, sr, np, fc, co, scan>>

\* analyzeCode is called: tempDir is named after the clock, fs.mkdir begins
Start(r) ==
    /\ run[r].pc = "idle"
    /\ \E url \in RepoUrls, lang \in Languages :
          Set(r, [run[r] EXCEPT !.repoUrl = url, !.language = lang,
                                !.tempDir = TempDirAt(now), !.pc = "mkdir"])
    /\ UNCHANGED <<now, fsDirs, sj, vp, ex, sr, np, fc, co, scan>>

\* fs.mkdir settled; the URL is checked; sparseCheckout starts git init
MkdirDone(r) ==
    /\ run[r].pc = "mkdir"
    /\ \/ /\ fsDirs' = fsDirs \cup {run[r].tempDir}
          /\ IF extractRepoDetailsFromUrl(run[r].repoUrl) = "null"
             THEN Set(r, Throw(run[r], "validate", <<"InvalidRepositoryUrl">>))
             ELSE Set(r, Exec(run[r], "git init", "git_init"))
       \/ /\ UNCHANGED fsDirs
          /\ Set(r, Throw(run[r], "mkdir", <<"MkdirFailed">>))
    /\ UNCHANGED <<now, sj, vp, ex, sr, np, fc, co, scan>>

GitInitDone(r) ==
    /\ run[r].pc = "git_init"
    /\ \/ /\ GitCanSucceed(run[r])
          /\ Set(r, Exec(run[r], "git remote add", "git_remote"))
       \/ Set(r, ThrowCheckout(run[r], <<"GitFailed">>))
    /\ UNCHANGED <<now, fsDirs, sj, vp, ex, sr, np, fc, co, scan>>

\* the remote is added; the patterns are chosen; git config begins
GitRemoteDone(r) ==
    /\ run[r].pc = "git_remote"
    /\ \/ /\ GitCanSucceed(run[r])
          /\ \E specificFiles \in SpecificFiles :
                Set(r, Exec([run[r] EXCEPT !.patterns =
                                checkoutPatterns(specificFiles, run[r].language)],
                            "git config", "git_config"))
       \/ Set(r, ThrowCheckout(run[r], <<"GitFailed">>))
    /\ UNCHANGED <<now, fsDirs, sj, vp, ex, sr, np, fc, co, scan>>

\* core.sparseCheckout is set; the rules file is named and its write begins
GitConfigDone(r) ==
    /\ run[r].pc = "git_config"
    /\ \/ /\ GitCanSucceed(run[r])
          /\ IF safeJoinPath(run[r].tempDir,
                             <<<<".", "g", "i", "t">>, <<"i", "n", "f", "o">>, <<"s", "p", "a", "r", "s", "e", "-", "c", "h", "e", "c", "k", "o", "u", "t">>>>, Cwd).ok
             THEN Set(r, [run[r] EXCEPT !.pc = "write_sparse"])
             ELSE Set(r, ThrowCheckout(run[r], <<"PathError">>))
       \/ Set(r, ThrowCheckout(run[r], <<"GitFailed">>))
    /\ UNCHANGED <<now, fsDirs, sj, vp, ex, sr, np, fc, co, scan>>

\* the rules file is written; _determineRemoteBranch lists the remote heads
WriteSparseDone(r) ==
    /\ run[r].pc = "write_sparse"
    /\ \/ /\ run[r].tempDir \in fsDirs
          /\ Set(r, Exec(run[r], "git ls-remote", "ls_remote"))
       \/ Set(r, ThrowCheckout(run[r], <<"WriteFailed">>))
    /\ UNCHANGED <<now, fsDirs, sj, vp, ex, sr, np, fc, co, scan>>

\* the heads are listed; the branch is resolved; the shallow fetch begins
LsRemoteDone(r) ==
    /\ run[r].pc = "ls_remote"
    /\ \/ /\ GitCanSucceed(run[r])
          /\ \E heads \in HeadSets :
                LET b == determineRemoteBranch(listRemote(heads), DefaultBranch)
                IN IF b = NoBranch
                   THEN Set(r, Throw([run[r] EXCEPT !.patterns = <<>>,
                                                   !.remote = heads], "checkout",
                                     <<"SparseCheckoutFailed", "BranchVerifyFailed",
                                       "NoSuitableBranch">>))
                   ELSE Set(r, Exec([run[r] EXCEPT !.remote = heads, !.branch = b],
                                    "git fetch", "git_fetch"))
       \/ Set(r, ThrowCheckout(run[r], <<"BranchVerifyFailed", "GitFailed">>))
    /\ UNCHANGED <<now, fsDirs, sj, vp, ex, sr, np, fc, co, scan>>

\* git fetch origin <branch> --depth=1 settled: it fails for a missing branch
FetchDone(r) ==
    /\ run[r].pc = "git_fetch"
    /\ \/ /\ GitCanSucceed(run[r])
          /\ run[r].branch \in run[r].remote
          /\ Set(r, Exec(run[r], "git checkout", "git_checkout"))
       \/ Set(r, ThrowCheckout(run[r], <<"GitFailed">>))
    /\ UNCHANGED <<now, fsDirs, sj, vp, ex, sr, np, fc, co, scan>>

\* git checkout settled: sparseCheckout returns and the analyzer is chosen
CheckoutDone(r) ==
    /\ run[r].pc = "git_checkout"
    /\ \/ /\ GitCanSucceed(run[r])
          /\ \E rec \in BeginAnalyzer([run[r] EXCEPT !.patterns = <<>>,
                                                     !.remote = {},
                                                     !.branch = NoBranch]) :
                Set(r, rec)
       \/ Set(r, ThrowCheckout(run[r], <<"GitFailed">>))
    /\ UNCHANGED <<now, fsDirs, sj, vp, ex, sr, np, fc, co, scan>>

\* runESLint: the local eslint was looked for; a custom config is checked
EslintAccessDone(r) ==
    /\ run[r].pc = "eslint_access"
    /\ \E configFile \in EslintConfigs :
          LET customConfigFullPath == customConfigPath(run[r].tempDir, configFile)
          IN IF Trim(configFile) # <<>>
             THEN IF customConfigFullPath.ok
                  THEN Set(r, BeginEslintExec(
                                 [run[r] EXCEPT !.option = configFile,
                                     !.cmdConfig = customConfigFullPath.value]))
                  ELSE Set(r, Throw([run[r] EXCEPT !.option = configFile],
                                    "analyze", <<"PathError", "eslint">>))
             ELSE Set(r, [run[r] EXCEPT !.option = configFile,
                                        !.pc = "eslint_probe"])
    /\ UNCHANGED <<now, fsDirs, sj, vp, ex, sr, np, fc, co, scan>>

\* hasAnyFile settled: a default config is written when none was found
EslintProbeDone(r) ==
    /\ run[r].pc = "eslint_probe"
    /\ \E present \in ConfigFileSets :
          IF hasAnyFile(run[r].tempDir, standardConfigs, present)
          THEN Set(r, BeginEslintExec([run[r] EXCEPT !.present = present]))
          ELSE IF safeJoinPath(run[r].tempDir, <<<<".", "e", "s", "l", "i", "n", "t", "r", "c", ".", "j", "s", "o", "n">>>>, Cwd).ok
          THEN Set(r, [run[r] EXCEPT !.present = present, !.writes = @ + 1,
                                     !.pc = "eslint_write"])
          ELSE Set(r, Throw([run[r] EXCEPT !.present = present], "analyze",
                            <<"PathError", "eslint">>))
    /\ UNCHANGED <<now, fsDirs, sj, vp, ex, sr, np, fc, co, scan>>

EslintWriteDone(r) ==
    /\ run[r].pc = "eslint_write"
    /\ \/ /\ run[r].tempDir \in fsDirs
          /\ Set(r, BeginEslintExec(run[r]))
       \/ Set(r, Throw(run[r], "analyze", <<"ESLintError", "Unexpected">>))
    /\ UNCHANGED <<now, fsDirs, sj, vp, ex, sr, np, fc, co, scan>>

\* the ESLint process settled
EslintExecDone(r) ==
    /\ run[r].pc = "eslint_exec"
    /\ \/ \E result \in RanOutcomes["eslint"] :
             Set(r, Settle(run[r], "ran", "ESLintError", result))
       \/ \E result \in AbsentOutcomes["eslint"] :
             Set(r, Settle(run[r], "absent", "ESLintError", result))
    /\ UNCHANGED <<now, fsDirs, sj, vp, ex, sr, np, fc, co, scan>>

\* the PMD process settled
PmdExecDone(r) ==
    /\ run[r].pc = "pmd_exec"
    /\ \/ \E result \in RanOutcomes["pmd"] :
             Set(r, Settle(run[r], "ran", "PMDError", result))
       \/ \E result \in AbsentOutcomes["pmd"] :
             Set(r, Settle(run[r], "absent", "PMDError", result))
    /\ UNCHANGED <<now, fsDirs, sj, vp, ex, sr, np, fc, co, scan>>

\* runPyLint / runPHPLint: `which` settled; the linter is started
WhichDone(r) ==
    /\ run[r].pc = "which_exec"
    /\ \/ Set(r, Exec(run[r], "lint", "lint_exec"))
       \/ \E result \in AbsentOutcomes[LintTool(run[r].language)] :
             Set(r, Settle(run[r], "absent", "LintError", result))
    /\ UNCHANGED <<now, fsDirs, sj, vp, ex, sr, np, fc, co, scan>>

LintExecDone(r) ==
    /\ run[r].pc = "lint_exec"
    /\ \E result \in RanOutcomes[LintTool(run[r].language)] :
          Set(r, Settle(run[r], "ran", "LintError", result))
    /\ UNCHANGED <<now, fsDirs, sj, vp, ex, sr, np, fc, co, scan>>

\* addFileContents settled (it never throws): the result is returned, and
\* the finally block starts fs.rm
AttachDone(r) ==
    /\ run[r].pc = "attach"
    /\ Set(r, [run[r] EXCEPT !.pc = "rm"])
    /\ UNCHANGED <<now, fsDirs, sj, vp, ex, sr, np, fc, co, scan>>

\* a finally block whose cleanup error escapes: it replaces the result or
\* the error of the call
cleanupSettledThrowing(rec, failed) ==
    IF failed
    THEN [rec EXCEPT !.pc = "done", !.warned = TRUE, !.outcome = "rejected",
                     !.error = <<"CleanupError">>]
    ELSE [rec EXCEPT !.pc = "done",
                     !.outcome = IF rec.error = <<>> THEN "resolved" ELSE "rejected"]

\* the finally block of analyzeCode once fs.rm settled: a failure is caught
\* and logged as a warning, and the call settles as its try block decided
cleanupSettled(rec, failed) ==
    [rec EXCEPT !.pc = "done",
                !.warned = failed,
                !.outcome = IF rec.error = <<>> THEN "resolved" ELSE "rejected"]

\* fs.rm settled: a failure is logged as a warning only; the call settles
RmDone(r) ==
    /\ run[r].pc = "rm"
    /\ \/ /\ fsDirs' = fsDirs \ {run[r].tempDir}
          /\ Set(r, cleanupSettled(run[r], FALSE))
       \/ /\ UNCHANGED fsDirs
          /\ Set(r, cleanupSettled(run[r], TRUE))
    /\ UNCHANGED <<now, sj, vp, ex, sr, np, fc, co, scan>>

(***************************************************************************)
(* standardizeResults and the helpers it calls.  A native value is         *)
(* [defined, text]: undefined, or a number or string written by its text.  *)
(* A tool's output is a list of files [path, errorCount, warningCount,     *)
(* messages], a message being [line, native]; PyLint's flat list of issues *)
(* is that list flattened.                                                 *)
(***************************************************************************)
Undefined == [defined |-> FALSE, text |-> <<>>]
Value(text) == [defined |-> TRUE, text |-> text]

IsLetter(c) == \E k \in 1..26 : UpperCase[k] = c \/ LowerCase[k] = c

\* /^[a-zA-Z]:\//.test(p)
IsWindowsAbsoluteWithDrive(p) ==
    Len(p) >= 3 /\ IsLetter(p[1]) /\ p[2] = ":" /\ p[3] = "/"

\* p.replace(/\\/g, '/')
SlashesForward(p) == [i \in 1..Len(p) |-> IF p[i] = "\\" THEN "/" ELSE p[i]]

\* the segments of path.resolve(p)
ResolvedSegments(p, cwd) ==
    NormSegs(Split(IF PathIsAbsolute(p) THEN p
                   ELSE IF p = <<>> THEN cwd ELSE cwd \o <<"/">> \o p, "/"),
             <<>>, FALSE)

RECURSIVE CommonPrefixLen(_, _)
CommonPrefixLen(a, b) ==
    IF a = <<>> \/ b = <<>> \/ Head(a) # Head(b) THEN 0
    ELSE 1 + CommonPrefixLen(Tail(a), Tail(b))

\* path.relative(from, to)
PathRelative(from, to, cwd) ==
    LET f == ResolvedSegments(from, cwd)
        t == ResolvedSegments(to, cwd)
        k == CommonPrefixLen(f, t)
    IN JoinWith([i \in 1..(Len(f) - k) |-> DotDot] \o SubSeq(t, k + 1, Len(t)), "/")

\* path.basename(p)
RECURSIVE PathBasename(_)
PathBasename(p) ==
    IF p = <<>> THEN <<>>
    ELSE IF p[Len(p)] = "/" THEN PathBasename(SubSeq(p, 1, Len(p) - 1))
    ELSE LET parts == Split(p, "/") IN parts[Len(parts)]

UnknownFile == <<"u", "n", "k", "n", "o", "w", "n">>

\* normalizeAndRelativizePath keeping only the file name of an absolute path
normalizeAndRelativizePathFlat(filePath, baseDirectory, allowOutside) ==
    IF ~filePath.defined \/ filePath.text = <<>> THEN UnknownFile
    ELSE LET normalizedFilePath == SlashesForward(filePath.text)
         IN IF \/ IsWindowsAbsoluteWithDrive(normalizedFilePath)
               \/ StartsWith(normalizedFilePath, <<"/">>)
            THEN PathBasename(normalizedFilePath)
            ELSE normalizedFilePath

\* normalizeAndRelativizePath(filePath, baseDirectory, allowOutside)
normalizeAndRelativizePath(filePath, baseDirectory, allowOutside) ==
    IF ~filePath.defined \/ filePath.text = <<>> THEN UnknownFile
    ELSE LET normalizedFilePath      == SlashesForward(filePath.text)
             normalizedBaseDirectory == SlashesForward(baseDirectory)
             isEffectivelyAbsolute   ==
                 \/ IsWindowsAbsoluteWithDrive(normalizedFilePath)
                 \/ StartsWith(normalizedFilePath, <<"/">>)
             relativePath ==
                 SlashesForward(PathRelative(normalizedBaseDirectory,
                                             normalizedFilePath, Cwd))
         IN IF isEffectivelyAbsolute
            THEN IF \/ StartsWith(relativePath, <<".", ".", "/">>)
                    \/ (IsWindowsAbsoluteWithDrive(relativePath)
                          /\ relativePath = normalizedFilePath)
                 THEN IF ~allowOutside THEN PathBasename(normalizedFilePath)
                      ELSE normalizedFilePath
                 ELSE IF relativePath = <<>> THEN <<".">> ELSE relativePath
            ELSE normalizedFilePath

\* parseInt(x, 10): the leading decimal digits, NaN without any
RECURSIVE LeadingDigits(_, _)
LeadingDigits(text, acc) ==
    IF text = <<>> \/ ~(\E d \in 1..10 : Digits[d] = Head(text)) THEN acc
    ELSE LeadingDigits(Tail(text),
                       acc * 10 + (CHOOSE d \in 1..10 : Digits[d] = Head(text)) - 1)

parseInt(x) ==
    IF x.defined /\ x.text # <<>> /\ (\E d \in 1..10 : Digits[d] = Head(x.text))
    THEN [nan |-> FALSE, n |-> LeadingDigits(x.text, 0)]
    ELSE [nan |-> TRUE, n |-> 0]

\* getSeverityFromPriority
getSeverityFromPriority(priority) ==
    LET p == parseInt(priority)
    IN IF ~p.nan /\ p.n <= 2 THEN "error"
       ELSE IF ~p.nan /\ p.n <= 4 THEN "warning"
       ELSE "info"

\* getPyLintSeverity: undefined.toLowerCase() throws a TypeError
getPyLintSeverity(type) ==
    IF ~type.defined THEN "TypeError"
    ELSE LET lowerType == ToLowerCase(type.text)
         IN IF lowerType = <<"e", "r", "r", "o", "r">> \/ lowerType = <<"f", "a", "t", "a", "l">> THEN "error"
            ELSE IF lowerType = <<"w", "a", "r", "n", "i", "n", "g">> THEN "warning"
            ELSE "info"

\* message.severity === 2 ? 'error' : 'warning'
getESLintSeverity(severity) ==
    IF severity.defined /\ severity.text = <<"2">> THEN "error" ELSE "warning"

\* message.type.toLowerCase() === 'error' ? 'error' : 'warning'
getPHPSeverity(type) ==
    IF ~type.defined THEN "TypeError"
    ELSE IF ToLowerCase(type.text) = <<"e", "r", "r", "o", "r">> THEN "error" ELSE "warning"

\* the severity each case of standardizeResults gives a native value
nativeSeverity(tool, native) ==
    CASE tool = "eslint" -> getESLintSeverity(native)
      [] tool = "pmd" -> getSeverityFromPriority(native)
      [] tool = "pylint" -> getPyLintSeverity(native)
      [] OTHER -> getPHPSeverity(native)

\* the messages of all files in order, each with its file's path
RECURSIVE Flatten(_)
Flatten(files) ==
    IF files = <<>> THEN <<>>
    ELSE [i \in 1..Len(Head(files).messages) |->
             [path |-> Head(files).path,
              line |-> Head(files).messages[i].line,
              native |-> Head(files).messages[i].native]]
         \o Flatten(Tail(files))

\* the messages handled before the first one that throws inside the try
RECURSIVE Handled(_, _)
Handled(tool, flat) ==
    IF flat = <<>> \/ nativeSeverity(tool, Head(flat).native) = "TypeError" THEN <<>>
    ELSE <<Head(flat)>> \o Handled(tool, Tail(flat))

RECURSIVE SumOf(_, _)
SumOf(files, field) ==
    IF files = <<>> THEN 0 ELSE Head(files)[field] + SumOf(Tail(files), field)

CountWhere(issues, severities) ==
    Cardinality({i \in 1..Len(issues) : issues[i].severity \in severities})

\* the final filter of standardizeResults
Retained(issue) ==
    /\ issue.file # <<>>
    /\ issue.file # UnknownFile
    /\ ~Includes(issue.file, <<"n", "o", "d", "e", "_", "m", "o", "d", "u", "l", "e", "s">>)
    /\ issue.line.defined
    /\ issue.line.n > 0

\* standardizeResults(results, language, baseDirectory), results being the
\* output of the language's tool
standardizeResults(tool, files, baseDirectory) ==
    LET flat    == Flatten(files)
        handled == Handled(tool, flat)
        threw   == Len(handled) < Len(flat)
        pushed  == [i \in 1..Len(handled) |->
                       [file |-> normalizeAndRelativizePath(Value(handled[i].path),
                                                            baseDirectory, FALSE),
                        line |-> handled[i].line,
                        severity |-> nativeSeverity(tool, handled[i].native)]]
        summary ==
            CASE tool = "eslint" ->
                     [errorCount |-> SumOf(files, "errorCount"),
                      warningCount |-> SumOf(files, "warningCount"),
                      fileCount |-> Len(files)]
              [] tool = "pylint" ->
                     [errorCount |-> CountWhere(pushed, {"error"}),
                      warningCount |-> CountWhere(pushed, {"warning", "info"}),
                      fileCount |-> IF threw THEN 0
                                    ELSE Cardinality({pushed[i].file :
                                                         i \in 1..Len(pushed)})]
              [] OTHER ->
                     [errorCount |-> CountWhere(pushed, {"error"}),
                      warningCount |-> CountWhere(pushed, {"warning", "info"}),
                      fileCount |-> Len(files)]
    IN [summary |-> summary, issues |-> SelectSeq(pushed, Retained)]

EmptyResults == [summary |-> [errorCount |-> 0, warningCount |-> 0, fileCount |-> 0],
                 issues |-> <<>>]

(***************************************************************************)
(* utils/sparseCheckout.js: sparseCheckout(repoUrl, patterns, branch).     *)
(* The patterns argument is a JavaScript value: a string, or an array of   *)
(* elements that are strings or numbers.                                   *)
(***************************************************************************)
PString(text) == [isArray |-> FALSE, text |-> text, items |-> <<>>]
PArray(items) == [isArray |-> TRUE, text |-> <<>>, items |-> items]
Str(text) == [type |-> "string", text |-> text]
Num(text) == [type |-> "number", text |-> text]

AlphaNumeric ==
    {UpperCase[i] : i \in 1..26} \cup {LowerCase[i] : i \in 1..26}
        \cup {Digits[i] : i \in 1..10}

\* every character of s is in chars, and s is not empty: /^[chars]+$/
AllIn(s, chars) == s # <<>> /\ \A i \in 1..Len(s) : s[i] \in chars

EndsWith(s, p) == Len(p) <= Len(s) /\ SubSeq(s, Len(s) - Len(p) + 1, Len(s)) = p

\* /^[a-zA-Z0-9.:/@\-_]+$/
repoUrlRegex(s) == AllIn(s, AlphaNumeric \cup {".", ":", "/", "@", "-", "_"})

\* /^(?!.*(\.\.| |\/\/|\/\.|\.$|\/$|\^|~|:|\?|\[))[a-zA-Z0-9\/._-]+$/
branchRegex(s) ==
    /\ ~Includes(s, <<".", ".">>)
    /\ ~Includes(s, <<" ">>)
    /\ ~Includes(s, <<"/", "/">>)
    /\ ~Includes(s, <<"/", ".">>)
    /\ ~EndsWith(s, <<".">>)
    /\ ~EndsWith(s, <<"/">>)
    /\ \A c \in {"^", "~", ":", "?", "["} : ~Includes(s, <<c>>)
    /\ AllIn(s, AlphaNumeric \cup {"/", ".", "_", "-"})

\* /^[a-zA-Z0-9*?\/._-]+$/ ; RegExp.prototype.test turns its argument into
\* a string first
patternRegex(element) == AllIn(element.text, AlphaNumeric \cup {"*", "?", "/", ".", "_", "-"})

\* the three checks at the head of sparseCheckout: the error thrown, or "none"
sparseCheckoutValidation(repoUrl, patterns, branch) ==
    IF ~repoUrlRegex(repoUrl) THEN "InvalidRepositoryUrl"
    ELSE IF ~branchRegex(branch) THEN "InvalidBranchName"
    ELSE IF ~patterns.isArray
            \/ \E i \in 1..Len(patterns.items) : ~patternRegex(patterns.items[i])
         THEN "InvalidPatterns"
    ELSE "none"

\* sparseCheckout up to its first await: rejected, or fs.mkdir(TEMP_DIR) begun
sparseCheckoutEnter(caller, repoUrl, patterns, branch) ==
    LET invalid == sparseCheckoutValidation(repoUrl, patterns, branch)
    IN [pc |-> IF invalid = "none" THEN "mkdir_temp" ELSE "rejected",
        caller |-> caller, repoUrl |-> repoUrl, patterns |-> patterns,
        branch |-> branch, dirs |-> {}, procs |-> <<>>, written |-> <<>>,
        error |-> invalid]

\* the execSync commands that run, one after the other, between two awaits
GitCommandsAfter(pc) ==
    IF pc = "mkdir_repo" THEN <<"git init", "git remote add", "git config">>
    ELSE <<"git fetch", "git checkout">>

(***************************************************************************)
(* utils/pmdScanner.js: scanRepository(repoUrl, language, customRulesets)  *)
(***************************************************************************)
ScanLanguages == {<<"j", "a", "v", "a">>, <<"J", "a", "v", "a", "S", "c", "r", "i", "p", "t">>, <<"t", "y", "p", "e", "s", "c", "r", "i", "p", "t">>, <<"p", "y", "t", "h", "o", "n">>, <<"p", "h", "p">>, <<"c", "o", "b", "o", "l">>}

\* LANGUAGE_FILE_PATTERNS[language] || LANGUAGE_FILE_PATTERNS.java
LANGUAGE_FILE_PATTERNS(language) ==
    CASE language = <<"j", "a", "v", "a", "s", "c", "r", "i", "p", "t">> -> <<"*", ".", "j", "s", "\n", "*", ".", "j", "s", "x">>
      [] language = <<"t", "y", "p", "e", "s", "c", "r", "i", "p", "t">> -> <<"*", ".", "t", "s", "\n", "*", ".", "t", "s", "x">>
      [] language = <<"p", "y", "t", "h", "o", "n">> -> <<"*", ".", "p", "y">>
      [] language = <<"p", "h", "p">> -> <<"*", ".", "p", "h", "p">>
      [] OTHER -> <<"*", ".", "j", "a", "v", "a">>

\* LANGUAGE_RULESETS[language], LANGUAGE_RULESETS.java for an unknown one
LANGUAGE_RULESETS(language) ==
    CASE language = <<"j", "a", "v", "a", "s", "c", "r", "i", "p", "t">> -> <<"c", "a", "t", "e", "g", "o", "r", "y", "/", "e", "c", "m", "a", "s", "c", "r", "i", "p", "t", "/", "b", "e", "s", "t", "p", "r", "a", "c", "t", "i", "c", "e", "s", ".", "x", "m", "l", ",", "c", "a", "t", "e", "g", "o", "r", "y", "/", "e", "c", "m", "a", "s", "c", "r", "i", "p", "t", "/", "e", "r", "r", "o", "r", "p", "r", "o", "n", "e", ".", "x", "m", "l">>
      [] language = <<"t", "y", "p", "e", "s", "c", "r", "i", "p", "t">> -> <<"c", "a", "t", "e", "g", "o", "r", "y", "/", "e", "c", "m", "a", "s", "c", "r", "i", "p", "t", "/", "b", "e", "s", "t", "p", "r", "a", "c", "t", "i", "c", "e", "s", ".", "x", "m", "l", ",", "c", "a", "t", "e", "g", "o", "r", "y", "/", "e", "c", "m", "a", "s", "c", "r", "i", "p", "t", "/", "e", "r", "r", "o", "r", "p", "r", "o", "n", "e", ".", "x", "m", "l">>
      [] language = <<"p", "y", "t", "h", "o", "n">> -> <<"c", "a", "t", "e", "g", "o", "r", "y", "/", "p", "y", "t", "h", "o", "n", "/", "b", "e", "s", "t", "p", "r", "a", "c", "t", "i", "c", "e", "s", ".", "x", "m", "l", ",", "c", "a", "t", "e", "g", "o", "r", "y", "/", "p", "y", "t", "h", "o", "n", "/", "e", "r", "r", "o", "r", "p", "r", "o", "n", "e", ".", "x", "m", "l">>
      [] language = <<"p", "h", "p">> -> <<"c", "a", "t", "e", "g", "o", "r", "y", "/", "p", "h", "p", "/", "b", "e", "s", "t", "p", "r", "a", "c", "t", "i", "c", "e", "s", ".", "x", "m", "l", ",", "c", "a", "t", "e", "g", "o", "r", "y", "/", "p", "h", "p", "/", "e", "r", "r", "o", "r", "p", "r", "o", "n", "e", ".", "x", "m", "l">>
      [] OTHER -> <<"c", "a", "t", "e", "g", "o", "r", "y", "/", "j", "a", "v", "a", "/", "b", "e", "s", "t", "p", "r", "a", "c", "t", "i", "c", "e", "s", ".", "x", "m", "l", ",", "c", "a", "t", "e", "g", "o", "r", "y", "/", "j", "a", "v", "a", "/", "e", "r", "r", "o", "r", "p", "r", "o", "n", "e", ".", "x", "m", "l">>

IdleEx == [pc |-> "idle", tool |-> "none", code |-> <<>>, message |-> <<>>,
           stderr |-> <<>>, stdout |-> <<>>, result |-> Thrown("none")]
IdleSr == [pc |-> "idle", tool |-> "none", files |-> <<>>, result |-> EmptyResults]

IdleNp == [pc |-> "idle", filePath |-> Undefined, baseDirectory |-> <<>>,
           allowOutside |-> FALSE, depth |-> 0, result |-> <<>>]
IdleFc == [pc |-> "idle", issues |-> <<>>, queue |-> <<>>, tried |-> {}, reads |-> {},
           unreadable |-> {}, fileContents |-> {}, threw |-> FALSE]
IdleCo == [pc |-> "idle", caller |-> "none", repoUrl |-> <<>>, patterns |-> PArray(<<>>),
           branch |-> <<>>, dirs |-> {}, procs |-> <<>>, written |-> <<>>,
           error |-> "none"]
IdleScan == [pc |-> "idle", repoUrl |-> <<>>, language |-> <<>>, customRulesets |-> <<>>,
             rulesets |-> <<>>, error |-> <<>>]

IdleSj == [pc |-> "idle", baseDir |-> <<>>, subPaths |-> <<>>, cwd |-> <<"/">>,
           result |-> Thrown("none")]
IdleVp == [pc |-> "idle", rulesetPath |-> <<>>, n |-> 0, baseDir |-> <<>>,
           result |-> Thrown("none")]

Init ==
    /\ sj = IdleSj
    /\ vp = IdleVp
    /\ ex = IdleEx
    /\ sr = IdleSr
    /\ np = IdleNp
    /\ fc = IdleFc
    /\ co = IdleCo
    /\ scan = IdleScan
    /\ now = 0
    /\ fsDirs = {}
    /\ run = [r \in Runs |-> IdleRun]

Next ==
    \/ Tick
    \/ \E r \in Runs : Start(r)
    \/ \E r \in Runs : MkdirDone(r)
    \/ \E r \in Runs : GitInitDone(r)
    \/ \E r \in Runs : GitRemoteDone(r)
    \/ \E r \in Runs : GitConfigDone(r)
    \/ \E r \in Runs : WriteSparseDone(r)
    \/ \E r \in Runs : LsRemoteDone(r)
    \/ \E r \in Runs : FetchDone(r)
    \/ \E r \in Runs : CheckoutDone(r)
    \/ \E r \in Runs : EslintAccessDone(r)
    \/ \E r \in Runs : EslintProbeDone(r)
    \/ \E r \in Runs : EslintWriteDone(r)
    \/ \E r \in Runs : EslintExecDone(r)
    \/ \E r \in Runs : PmdExecDone(r)
    \/ \E r \in Runs : WhichDone(r)
    \/ \E r \in Runs : LintExecDone(r)
    \/ \E r \in Runs : AttachDone(r)
    \/ \E r \in Runs : RmDone(r)

Spec == Init /\ [][Next]_vars

(***************************************************************************)
(* One analyzeCode call on its own.                                        *)
(***************************************************************************)
NextSolo ==
    \/ Tick
    \/ Start(1)
    \/ MkdirDone(1)
    \/ GitInitDone(1)
    \/ GitRemoteDone(1)
    \/ GitConfigDone(1)
    \/ WriteSparseDone(1)
    \/ LsRemoteDone(1)
    \/ FetchDone(1)
    \/ CheckoutDone(1)
    \/ EslintAccessDone(1)
    \/ EslintProbeDone(1)
    \/ EslintWriteDone(1)
    \/ EslintExecDone(1)
    \/ PmdExecDone(1)
    \/ WhichDone(1)
    \/ LintExecDone(1)
    \/ AttachDone(1)
    \/ RmDone(1)

SpecSolo == Init /\ [][NextSolo]_vars

(***************************************************************************)
(* safeJoinPath called on its own: every base of Bases, every list of at   *)
(* most MaxSegs segments of Segments, in a process whose working           *)
(* directory is one of Cwds.                                               *)
(***************************************************************************)
Bases ==
    {<<"/">>,
      <<"/", "a">>,
      <<"/", "a", "/">>,
      <<"/", "a", "/", "b">>,
      <<"/", "e", "t", "c">>,
      <<"/", "e", "t", "c", "/">>,
      <<"/", "a", "/", ".", "/", "b">>,
      <<"/", "a", "/", ".", ".", "/", "e", "t", "c">>,
      <<"a">>,
      <<"e", "t", "c">>}

Segments ==
    {<<".", ".">>,
      <<"b">>,
      <<"e", "t", "c">>,
      <<".">>,
      <<"c", "/", ".", ".">>,
      <<"/", "e", "t", "c">>}

Cwds == {<<"/">>, <<"/", "w">>}

InitPath ==
    /\ sj \in [pc : {"args"}, baseDir : Bases, subPaths : {<<>>}, cwd : Cwds,
               result : {Thrown("none")}]
    /\ vp = IdleVp
    /\ ex = IdleEx
    /\ sr = IdleSr
    /\ np = IdleNp
    /\ fc = IdleFc
    /\ co = IdleCo
    /\ scan = IdleScan
    /\ now = 0
    /\ fsDirs = {}
    /\ run = [r \in Runs |-> IdleRun]

AddSegment ==
    /\ sj.pc = "args"
    /\ Len(sj.subPaths) < MaxSegs
    /\ \E s \in Segments : sj' = [sj EXCEPT !.subPaths = Append(@, s)]
    /\ UNCHANGED <<vp, ex, sr, now, fsDirs, run, np, fc, co, scan>>

CallSafeJoinPath ==
    /\ sj.pc = "args"
    /\ sj' = [sj EXCEPT !.pc = "returned",
                        !.result = safeJoinPath(sj.baseDir, sj.subPaths, sj.cwd)]
    /\ UNCHANGED <<vp, ex, sr, now, fsDirs, run, np, fc, co, scan>>

NextPath == AddSegment \/ CallSafeJoinPath

SpecPath == InitPath /\ [][NextPath]_vars

(***************************************************************************)
(* validatePmdRulesetPath called on its own: the reference is built from   *)
(* at most MaxPieces pieces of Pieces.                                     *)
(***************************************************************************)
MaxPieces == 3

Pieces ==
    {<<" ">>,
      <<"h", "t", "t", "p", ":", "/", "/">>,
      <<"h", "t", "t", "p", "s", ":", "/", "/">>,
      <<"c", "a", "t", "e", "g", "o", "r", "y", "/">>,
      <<"/">>,
      <<".", ".">>,
      <<"r", ".", "x", "m", "l">>,
      <<"a">>,
      <<",">>}

VpBases == {<<"/", "a", "p", "p">>, <<"/", "t", "m", "p", "/", "w">>}

InitPmd ==
    /\ vp \in [pc : {"args"}, rulesetPath : {<<>>}, n : {0}, baseDir : VpBases,
               result : {Thrown("none")}]
    /\ sj = IdleSj
    /\ ex = IdleEx
    /\ sr = IdleSr
    /\ np = IdleNp
    /\ fc = IdleFc
    /\ co = IdleCo
    /\ scan = IdleScan
    /\ now = 0
    /\ fsDirs = {}
    /\ run = [r \in Runs |-> IdleRun]

AddPiece ==
    /\ vp.pc = "args"
    /\ vp.n < MaxPieces
    /\ \E s \in Pieces :
          vp' = [vp EXCEPT !.rulesetPath = @ \o s, !.n = @ + 1]
    /\ UNCHANGED <<sj, ex, sr, now, fsDirs, run, np, fc, co, scan>>

CallValidatePmdRulesetPath ==
    /\ vp.pc = "args"
    /\ vp' = [vp EXCEPT !.pc = "returned",
                        !.result = validatePmdRulesetPath(vp.rulesetPath, vp.baseDir)]
    /\ UNCHANGED <<sj, ex, sr, now, fsDirs, run, np, fc, co, scan>>

\* runPMD up to its first await: PMD is started unless an entry is refused
CallRunPMD ==
    /\ vp.pc = "args"
    /\ LET rulesetOption == pmdRulesetOption(vp.rulesetPath, vp.baseDir)
       IN vp' = [vp EXCEPT !.pc = IF rulesetOption.ok THEN "pmd_exec"
                                  ELSE "pmd_thrown",
                           !.result = rulesetOption]
    /\ UNCHANGED <<sj, ex, sr, now, fsDirs, run, np, fc, co, scan>>

NextPmd == AddPiece \/ CallValidatePmdRulesetPath \/ CallRunPMD

SpecPmd == InitPmd /\ [][NextPmd]_vars

(***************************************************************************)
(* An adapter's handling of its process on its own: the process of a tool  *)
(* exits with status zero, or exec rejects with an error whose fields are  *)
(* drawn independently, as the tests' mocked errors are.                   *)
(***************************************************************************)
ExitCodes == {<<"E", "N", "O", "E", "N", "T">>, <<"1">>, <<"2">>, <<"1", "2", "7">>}

ExecMessages(tool) ==
    {<<"C", "o", "m", "m", "a", "n", "d", " ", "f", "a", "i", "l", "e", "d", ":", " ">> \o ToolName(tool),
     <<"C", "o", "m", "m", "a", "n", "d", " ", "f", "a", "i", "l", "e", "d", ":", " ">> \o ToolName(tool) \o <<"\n">>
         \o <<"/", "b", "i", "n", "/", "s", "h", ":", " ", "1", ":", " ">> \o NotFoundPhrase(tool)}

ExecStderrs ==
    {<<>>,
     <<"E", "S", "L", "i", "n", "t", " ", "c", "o", "n", "f", "i", "g", "u", "r", "a", "t", "i", "o", "n", " ", "e", "r", "r", "o", "r", ":", " ", "b", "a", "d">>,
     <<"E", "r", "r", "o", "r", ":", " ", "C", "a", "n", "n", "o", "t", " ", "f", "i", "n", "d", " ", "m", "o", "d", "u", "l", "e", " ", "'", "x", "'">>,
     <<"P", "a", "r", "s", "i", "n", "g", " ", "e", "r", "r", "o", "r", ":", " ", "y">>,
     <<"o", "o", "p", "s">>}

ExecStdouts ==
    {<<>>,
     <<"[", "]">>,
     <<"{", "}">>,
     <<" ", "[", "]", " ">>,
     <<"{", " ", "x">>,
     <<"[", "x">>,
     <<"N", "o", "t", " ", "J", "S", "O", "N">>}

InitExec ==
    /\ ex \in {[pc |-> "running", tool |-> tool, code |-> code, message |-> message,
                 stderr |-> stderr, stdout |-> stdout, result |-> Thrown("none")] :
                   tool \in Tools, code \in ExitCodes, stderr \in ExecStderrs,
                   stdout \in ExecStdouts,
                   message \in UNION {ExecMessages(t) : t \in Tools}}
    /\ ex.message \in ExecMessages(ex.tool)
    /\ sj = IdleSj
    /\ vp = IdleVp
    /\ sr = IdleSr
    /\ np = IdleNp
    /\ fc = IdleFc
    /\ co = IdleCo
    /\ scan = IdleScan
    /\ now = 0
    /\ fsDirs = {}
    /\ run = [r \in Runs |-> IdleRun]

\* the process exits with status zero: its stdout is parsed
ExecResolves ==
    /\ ex.pc = "running"
    /\ ex' = [ex EXCEPT !.pc = "resolved",
                        !.result = adapterResolved(ex.tool, ex.stdout)]
    /\ UNCHANGED <<sj, vp, sr, now, fsDirs, run, np, fc, co, scan>>

\* exec rejects: the adapter's catch decides
ExecRejects ==
    /\ ex.pc = "running"
    /\ ex' = [ex EXCEPT !.pc = "rejected",
                        !.result = adapterCatch(ex.tool,
                                       [code |-> ex.code, message |-> ex.message,
                                        stderr |-> ex.stderr, stdout |-> ex.stdout])]
    /\ UNCHANGED <<sj, vp, sr, now, fsDirs, run, np, fc, co, scan>>

NextExec == ExecResolves \/ ExecRejects

SpecExec == InitExec /\ [][NextExec]_vars

(***************************************************************************)
(* standardizeResults called on its own, for the workspace WorkspaceRoot:  *)
(* the tool's output has at most MaxFiles files and MaxMessages messages.  *)
(***************************************************************************)
MaxFiles == 2
MaxMessages == 2

WorkspaceRoot == <<"/", "w", "s">>

FilePaths ==
    {<<"/", "w", "s", "/", "a", ".", "j", "s">>,
     <<"a", ".", "j", "s">>,
     <<"/", "e", "t", "c", "/", "p", "a", "s", "s", "w", "d">>,
     <<".", ".", "/", "x", ".", "j", "s">>,
     <<>>,
     <<"n", "o", "d", "e", "_", "m", "o", "d", "u", "l", "e", "s", "/", "m", ".", "j", "s">>,
     <<"n", "o", "d", "e", "_", "m", "o", "d", "u", "l", "e", "s", ".", "j", "s">>}

\* errorCount and warningCount as the tool reports them for a file
ReportedCounts == {0, 1}

Lines == {[defined |-> FALSE, n |-> 0], [defined |-> TRUE, n |-> 0],
          [defined |-> TRUE, n |-> 1]}

\* severity, priority or type values a tool's output may carry
NativeValues(tool) ==
    CASE tool = "eslint" -> {Value(<<"2">>), Value(<<"1">>), Value(<<"0">>), Undefined}
      [] tool = "pmd" -> {Value(<<"1">>), Value(<<"3">>), Value(<<"5">>), Value(<<"0">>)}
      [] tool = "pylint" -> {Value(<<"e", "r", "r", "o", "r">>), Value(<<"c", "o", "n", "v", "e", "n", "t", "i", "o", "n">>),
                             Value(<<"W", "a", "r", "n", "i", "n", "g">>), Undefined}
      [] OTHER -> {Value(<<"E", "R", "R", "O", "R">>), Value(<<"W", "A", "R", "N", "I", "N", "G">>),
                   Value(<<"n", "o", "t", "i", "c", "e">>), Undefined}

MessageCount(files) == Len(Flatten(files))

InitStd ==
    /\ sr \in [pc : {"args"}, tool : Tools, files : {<<>>}, result : {EmptyResults}]
    /\ sj = IdleSj
    /\ vp = IdleVp
    /\ ex = IdleEx
    /\ np = IdleNp
    /\ fc = IdleFc
    /\ co = IdleCo
    /\ scan = IdleScan
    /\ now = 0
    /\ fsDirs = {}
    /\ run = [r \in Runs |-> IdleRun]

\* one more file in the tool's output; PHP_CodeSniffer's files are the
\* keys of an object, so no path comes twice there; only ESLint reports
\* counts of its own
AddFile ==
    /\ sr.pc = "args"
    /\ Len(sr.files) < MaxFiles
    /\ \E path \in FilePaths, count \in ReportedCounts :
          /\ sr.tool = "phpcs" => \A i \in 1..Len(sr.files) : sr.files[i].path # path
          /\ sr.tool # "eslint" => count = 0
          /\ sr' = [sr EXCEPT !.files =
                        Append(@, [path |-> path, errorCount |-> count,
                                   warningCount |-> count, messages |-> <<>>])]
    /\ UNCHANGED <<sj, vp, ex, now, fsDirs, run, np, fc, co, scan>>

\* one more message for the last file
AddMessage ==
    /\ sr.pc = "args"
    /\ sr.files # <<>>
    /\ MessageCount(sr.files) < MaxMessages
    /\ \E line \in Lines, native \in NativeValues(sr.tool) :
          sr' = [sr EXCEPT !.files[Len(sr.files)].messages =
                               Append(@, [line |-> line, native |-> native])]
    /\ UNCHANGED <<sj, vp, ex, now, fsDirs, run, np, fc, co, scan>>

CallStandardizeResults ==
    /\ sr.pc = "args"
    /\ sr' = [sr EXCEPT !.pc = "returned",
                        !.result = standardizeResults(sr.tool, sr.files, WorkspaceRoot)]
    /\ UNCHANGED <<sj, vp, ex, now, fsDirs, run, np, fc, co, scan>>

NextStd == AddFile \/ AddMessage \/ CallStandardizeResults

SpecStd == InitStd /\ [][NextStd]_vars

(***************************************************************************)
(* One call of utils/sparseCheckout.js, made directly (as fetchSingleFile  *)
(* and listMatchingFiles do) or by scanRepository of utils/pmdScanner.js.  *)
(* dirs holds the directories the call created, procs the git commands it  *)
(* ran.                                                                    *)
(***************************************************************************)
CheckoutUrls == {<<"h", "t", "t", "p", "s", ":", "/", "/", "g", "i", "t", "h", "u", "b", ".", "c", "o", "m", "/", "o", "/", "r", ".", "g", "i", "t">>, <<"g", "i", "t", "@", "g", "i", "t", "h", "u", "b", ".", "c", "o", "m", ":", "o", "/", "r", ".", "g", "i", "t">>, <<"h", "t", "t", "p", "s", ":", "/", "/", "h", "/", "r", ";", "r", "e", "b", "o", "o", "t">>, <<"h", "t", "t", "p", "s", ":", "/", "/", "h", "/", "$", "(", "i", "d", ")">>}

CheckoutBranches == {<<"m", "a", "i", "n">>, <<"f", "e", "a", "t", "u", "r", "e", "/", "x">>, <<"a", ".", ".", "b">>, <<"a", " ", "b">>, <<"a", "\t", "b">>, <<"/", "m", "a", "i", "n">>, <<".", "h", "i", "d", "d", "e", "n">>, <<"m", "a", "i", "n", "/">>, <<"m", "a", "i", "n", ".">>, <<"v", "1", ".", "0">>}

CheckoutPatterns ==
    {PArray(<<Str(<<"*", ".", "j", "a", "v", "a">>)>>), PArray(<<Str(<<"*", ".", "j", "s">>), Str(<<"*", ".", "j", "s", "x">>)>>), PArray(<<Str(<<"a", ";", "b">>)>>),
     PArray(<<Num(<<"1", "2", "3">>)>>), PString(<<"*", ".", "j", "a", "v", "a">>)}

CustomRulesets == {<<>>, <<"c", "a", "t", "e", "g", "o", "r", "y", "/", "j", "a", "v", "a", "/", "d", "e", "s", "i", "g", "n", ".", "x", "m", "l">>}

InitCheckout ==
    /\ co = IdleCo
    /\ scan = IdleScan
    /\ sj = IdleSj
    /\ vp = IdleVp
    /\ ex = IdleEx
    /\ sr = IdleSr
    /\ np = IdleNp
    /\ fc = IdleFc
    /\ now = 0
    /\ fsDirs = {}
    /\ run = [r \in Runs |-> IdleRun]

\* sparseCheckout is called directly
CallSparseCheckout ==
    /\ co.pc = "idle"
    /\ scan.pc = "idle"
    /\ \E repoUrl \in CheckoutUrls, patterns \in CheckoutPatterns, branch \in CheckoutBranches :
          co' = sparseCheckoutEnter("direct", repoUrl, patterns, branch)
    /\ UNCHANGED <<sj, vp, ex, sr, np, fc, scan, now, fsDirs, run>>

\* scanRepository is called: the rulesets and the file pattern are chosen
\* and sparseCheckout(repoUrl, filePattern) is awaited
CallScanRepository ==
    /\ co.pc = "idle"
    /\ scan.pc = "idle"
    /\ \E repoUrl \in CheckoutUrls, language \in ScanLanguages, customRulesets \in CustomRulesets :
          LET normalizedLanguage == ToLowerCase(language)
          IN /\ scan' = [pc |-> "checkout", repoUrl |-> repoUrl, language |-> language,
                         customRulesets |-> customRulesets,
                         rulesets |-> IF customRulesets # <<>> THEN customRulesets
                                      ELSE LANGUAGE_RULESETS(normalizedLanguage),
                         error |-> <<>>]
             /\ co' = sparseCheckoutEnter("scanRepository", repoUrl,
                                          PString(LANGUAGE_FILE_PATTERNS(normalizedLanguage)),
                                          BranchMain)
    /\ UNCHANGED <<sj, vp, ex, sr, np, fc, now, fsDirs, run>>

\* fs.mkdir(TEMP_DIR) settled
CheckoutMkdirTempDone ==
    /\ co.pc = "mkdir_temp"
    /\ \/ co' = [co EXCEPT !.pc = "mkdir_repo", !.dirs = @ \cup {"TEMP_DIR"}]
       \/ co' = [co EXCEPT !.pc = "rejected", !.error = "MkdirFailed"]
    /\ UNCHANGED <<sj, vp, ex, sr, np, fc, scan, now, fsDirs, run>>

\* an await of sparseCheckout settled (fs.mkdir(repoDir), then
\* fs.writeFile): the execSync commands that follow run at once, any of
\* them may fail, and after the last the next await begins or the call
\* returns repoDir
CheckoutAwaitDone ==
    /\ co.pc \in {"mkdir_repo", "write"}
    /\ \/ co' = [co EXCEPT !.pc = "rejected",
                            !.error = IF co.pc = "write" THEN "WriteFailed" ELSE "MkdirFailed"]
       \/ \E n \in 1..Len(GitCommandsAfter(co.pc)) :
             co' = [co EXCEPT !.pc = "rejected", !.error = "GitFailed",
                              !.dirs = @ \cup {"repoDir"},
                              !.written = IF co.pc = "write" THEN co.patterns.items ELSE @,
                              !.procs = @ \o SubSeq(GitCommandsAfter(co.pc), 1, n)]
       \/ co' = [co EXCEPT !.pc = IF co.pc = "mkdir_repo" THEN "write" ELSE "resolved",
                            !.dirs = @ \cup {"repoDir"},
                            !.written = IF co.pc = "write" THEN co.patterns.items ELSE @,
                            !.procs = @ \o GitCommandsAfter(co.pc)]
    /\ UNCHANGED <<sj, vp, ex, sr, np, fc, scan, now, fsDirs, run>>

\* the sparseCheckout that scanRepository awaits settled.  Its value is the
\* string repoDir, of which { tempDir, files } are both undefined, so
\* files.length throws; either way the catch block rethrows
ScanCheckoutSettled ==
    /\ scan.pc = "checkout"
    /\ co.caller = "scanRepository"
    /\ co.pc \in {"resolved", "rejected"}
    /\ scan' = [scan EXCEPT !.pc = "rejected",
                            !.error = <<"PMDScanningFailed",
                                        IF co.pc = "rejected" THEN co.error ELSE "TypeError">>]
    /\ UNCHANGED <<sj, vp, ex, sr, np, fc, co, now, fsDirs, run>>

NextCheckout ==
    \/ CallSparseCheckout
    \/ CallScanRepository
    \/ CheckoutMkdirTempDone
    \/ CheckoutAwaitDone
    \/ ScanCheckoutSettled

SpecCheckout == InitCheckout /\ [][NextCheckout]_vars

(***************************************************************************)
(* addFileContents(results, baseDirectory) called on its own for the       *)
(* workspace WorkspaceRoot: results.issues are at most MaxIssues retained  *)
(* issues, of which only the file matters here.  fileContents is the set   *)
(* of its keys, reads the set of full paths handed to fs.readFile.         *)
(***************************************************************************)
MaxIssues == 3

\* files of retained issues: relative paths pass standardizeResults as they are
IssueFiles == {<<"a", ".", "j", "s">>, <<"s", "r", "c", "/", "b", ".", "j", "s">>, <<".", ".", "/", "x", ".", "j", "s">>, <<".">>}

\* [...new Set(files)]: the distinct files in order of first occurrence
RECURSIVE UniqueFiles(_, _)
UniqueFiles(files, seen) ==
    IF files = <<>> THEN <<>>
    ELSE IF Head(files) \in seen THEN UniqueFiles(Tail(files), seen)
    ELSE <<Head(files)>> \o UniqueFiles(Tail(files), seen \cup {Head(files)})

\* one iteration of a loop that lets the error of a file escape
addFileContentsStepAborting(rec, baseDirectory, readable) ==
    LET relativeFilePath == Head(rec.queue)
        fullPath         == safeJoinPath(baseDirectory, <<relativeFilePath>>, Cwd)
    IN IF fullPath.ok /\ readable
       THEN [rec EXCEPT !.queue = Tail(@),
                        !.tried = @ \cup {relativeFilePath},
                        !.reads = @ \cup {fullPath.value},
                        !.fileContents = @ \cup {relativeFilePath}]
       ELSE [rec EXCEPT !.queue = <<>>,
                        !.tried = @ \cup {relativeFilePath},
                        !.threw = TRUE]

\* one iteration of the loop of addFileContents, for the first file of the
\* queue; readable tells whether fs.readFile succeeds on it
addFileContentsStep(rec, baseDirectory, readable) ==
    LET relativeFilePath == Head(rec.queue)
        fullPath         == safeJoinPath(baseDirectory, <<relativeFilePath>>, Cwd)
    IN IF relativeFilePath = UnknownFile
       THEN [rec EXCEPT !.queue = Tail(@)]
       ELSE IF ~fullPath.ok
       THEN [rec EXCEPT !.queue = Tail(@), !.tried = @ \cup {relativeFilePath}]
       ELSE IF ~readable
       THEN [rec EXCEPT !.queue = Tail(@),
                        !.tried = @ \cup {relativeFilePath},
                        !.reads = @ \cup {fullPath.value},
                        !.unreadable = @ \cup {relativeFilePath}]
       ELSE [rec EXCEPT !.queue = Tail(@),
                        !.tried = @ \cup {relativeFilePath},
                        !.reads = @ \cup {fullPath.value},
                        !.fileContents = @ \cup {relativeFilePath}]

InitAttach ==
    /\ fc = [IdleFc EXCEPT !.pc = "args"]
    /\ sj = IdleSj
    /\ vp = IdleVp
    /\ ex = IdleEx
    /\ sr = IdleSr
    /\ np = IdleNp
    /\ co = IdleCo
    /\ scan = IdleScan
    /\ now = 0
    /\ fsDirs = {}
    /\ run = [r \in Runs |-> IdleRun]

\* one more retained issue in results.issues
AddIssue ==
    /\ fc.pc = "args"
    /\ Len(fc.issues) < MaxIssues
    /\ \E file \in IssueFiles : fc' = [fc EXCEPT !.issues = Append(@, file)]
    /\ UNCHANGED <<sj, vp, ex, sr, np, co, scan, now, fsDirs, run>>

\* addFileContents is called: uniqueFiles is computed, fileContents is empty
CallAddFileContents ==
    /\ fc.pc = "args"
    /\ fc' = [fc EXCEPT !.pc = "loop", !.queue = UniqueFiles(fc.issues, {})]
    /\ UNCHANGED <<sj, vp, ex, sr, np, co, scan, now, fsDirs, run>>

\* the next file is joined to the workspace and read; '.' is the workspace
\* directory itself, which fs.readFile cannot read
ReadFileDone ==
    /\ fc.pc = "loop"
    /\ fc.queue # <<>>
    /\ \E readable \in (IF Head(fc.queue) = <<".">> THEN {FALSE} ELSE BOOLEAN) :
          fc' = addFileContentsStep(fc, WorkspaceRoot, readable)
    /\ UNCHANGED <<sj, vp, ex, sr, np, co, scan, now, fsDirs, run>>

\* the loop is over (or an error reached the outer catch): the call resolves
AddFileContentsReturns ==
    /\ fc.pc = "loop"
    /\ fc.queue = <<>>
    /\ fc' = [fc EXCEPT !.pc = "returned"]
    /\ UNCHANGED <<sj, vp, ex, sr, np, co, scan, now, fsDirs, run>>

NextAttach == AddIssue \/ CallAddFileContents \/ ReadFileDone \/ AddFileContentsReturns

SpecAttach == InitAttach /\ [][NextAttach]_vars

(***************************************************************************)
(* normalizeAndRelativizePath called on its own: the file path is one of   *)
(* RelRoots followed by at most MaxDepth components of RelComponents.      *)
(***************************************************************************)
MaxDepth == 2

RelBases == {WorkspaceRoot, <<"/", "a", "p", "p", "/", "p", "r", "o", "j", "e", "c", "t">>, <<"C", ":", "\\", "a", "p", "p", "\\", "p", "r", "o", "j", "e", "c", "t">>}

RelRoots == {Undefined, Value(<<>>), Value(<<"/">>), Value(WorkspaceRoot), Value(<<"/", "a", "p", "p", "/", "p", "r", "o", "j", "e", "c", "t">>),
             Value(<<"/", "a", "p", "p">>), Value(<<"w", "s">>), Value(<<"\\", "w", "s">>), Value(<<"C", ":", "\\", "a", "p", "p", "\\", "p", "r", "o", "j", "e", "c", "t">>)}

RelComponents == {<<"a">>, <<".", ".">>, <<"x", ".", "j", "s">>, <<"n", "o", "d", "e", "_", "m", "o", "d", "u", "l", "e", "s">>, <<".">>}

InitRel ==
    /\ np \in [pc : {"args"}, filePath : RelRoots, baseDirectory : RelBases,
               allowOutside : BOOLEAN, depth : {0}, result : {<<>>}]
    /\ sj = IdleSj
    /\ vp = IdleVp
    /\ ex = IdleEx
    /\ sr = IdleSr
    /\ fc = IdleFc
    /\ co = IdleCo
    /\ scan = IdleScan
    /\ now = 0
    /\ fsDirs = {}
    /\ run = [r \in Runs |-> IdleRun]

\* one more component at the end of the file path
AddComponent ==
    /\ np.pc = "args"
    /\ np.filePath.defined
    /\ np.filePath.text # <<>>
    /\ np.depth < MaxDepth
    /\ \E c \in RelComponents, sep \in {"/", "\\"} :
          LET text == np.filePath.text
          IN np' = [np EXCEPT !.filePath =
                                 Value(IF text[Len(text)] \in {"/", "\\"} THEN text \o c
                                       ELSE text \o <<sep>> \o c),
                             !.depth = @ + 1]
    /\ UNCHANGED <<sj, vp, ex, sr, fc, co, scan, now, fsDirs, run>>

CallNormalizeAndRelativizePath ==
    /\ np.pc = "args"
    /\ np' = [np EXCEPT !.pc = "returned",
                        !.result = normalizeAndRelativizePath(np.filePath, np.baseDirectory,
                                                              np.allowOutside)]
    /\ UNCHANGED <<sj, vp, ex, sr, fc, co, scan, now, fsDirs, run>>

NextRel == AddComponent \/ CallNormalizeAndRelativizePath

SpecRel == InitRel /\ [][NextRel]_vars

(***************************************************************************)
(* Claims about safeJoinPath (checked under SpecPath).                     *)
(***************************************************************************)
\* the directory names of a path, from the root, "." and ".." resolved
Components(p, cwd) ==
    NormSegs(Split(IF PathIsAbsolute(p) THEN p ELSE cwd \o <<"/">> \o p, "/"),
             <<>>, FALSE)

JoinedComponents(baseDir, subPaths, cwd) ==
    Components(JoinWith(NonEmpty(<<baseDir>> \o subPaths), "/"), cwd)

IsPrefixSeq(a, b) == Len(a) <= Len(b) /\ SubSeq(b, 1, Len(a)) = a

\* the joined path is the base directory or lies below it
Within(baseDir, subPaths, cwd) ==
    IsPrefixSeq(Components(baseDir, cwd), JoinedComponents(baseDir, subPaths, cwd))

AbsolutePathOf(components) == <<"/">> \o JoinWith(components, "/")

\* C6: safeJoinPath returns the resolved joined path when that path is the
\* resolved base or a descendant of it, and throws a Path Error otherwise.
C6_ReturnsIffWithin ==
    sj.pc = "returned" =>
        IF Within(sj.baseDir, sj.subPaths, sj.cwd)
        THEN /\ sj.result.ok
             /\ sj.result.value =
                  AbsolutePathOf(JoinedComponents(sj.baseDir, sj.subPaths, sj.cwd))
        ELSE /\ ~sj.result.ok
             /\ sj.result.error = "PathError"

\* C7 as stated: safeJoinPath(base, "..", "..", "etc") throws for every base.
C7_AlwaysThrows ==
    (sj.pc = "returned" /\ sj.subPaths = <<DotDot, DotDot, <<"e", "t", "c">>>>)
        => ~sj.result.ok

\* C7, amended: safeJoinPath(base, "..", "..", "etc") throws a Path Error
\* for every base except one that resolves to /etc, the directory the
\* joined path names; for that base it returns /etc.
C7_ThrowsUnlessBaseIsEtc ==
    (sj.pc = "returned" /\ sj.subPaths = <<DotDot, DotDot, <<"e", "t", "c">>>>) =>
        IF Components(sj.baseDir, sj.cwd) = <<<<"e", "t", "c">>>>
        THEN sj.result = Returned(<<"/", "e", "t", "c">>)
        ELSE sj.result = Thrown("PathError")

C7_Witness ==
    /\ sj.pc = "returned"
    /\ sj.subPaths = <<DotDot, DotDot, <<"e", "t", "c">>>>
    /\ sj.baseDir = <<"/", "a", "/", "b">>
    /\ ~sj.result.ok

\* a base that is absolute, has no ".", ".." or empty segment and no
\* trailing separator: path.resolve leaves it as it is
IsResolvedForm(p) ==
    /\ PathIsAbsolute(p)
    /\ p = AbsolutePathOf(Components(p, <<"/">>))

\* C8 as stated: safeJoinPath(base) returns exactly the string passed in.
C8_ReturnsBaseUnchanged ==
    (sj.pc = "returned" /\ sj.subPaths = <<>>) =>
        (sj.result.ok /\ sj.result.value = sj.baseDir)

\* C8, amended: safeJoinPath(base) with zero segments never throws and
\* returns the resolved form of base (absolute, normalised, no trailing
\* separator), which is the string passed in exactly when base already has
\* that form.
C8_ReturnsResolvedBase ==
    (sj.pc = "returned" /\ sj.subPaths = <<>>) =>
        /\ sj.result.ok
        /\ sj.result.value = AbsolutePathOf(Components(sj.baseDir, sj.cwd))
        /\ (sj.result.value = sj.baseDir <=> IsResolvedForm(sj.baseDir))

C8_Witness ==
    /\ sj.pc = "returned"
    /\ sj.subPaths = <<>>
    /\ sj.baseDir = <<"/", "a", "/">>
    /\ sj.result = Returned(<<"/", "a">>)

(***************************************************************************)
(* Claims about validatePmdRulesetPath (checked under SpecPmd).            *)
(***************************************************************************)
HasDotDotSegment(p) == \E i \in 1..Len(Split(p, "/")) : Split(p, "/")[i] = DotDot

IsUrlForm(p) == StartsWith(p, HttpPrefix) \/ StartsWith(p, HttpsPrefix)
IsCategoryForm(p) == StartsWith(p, CategoryPrefix)
IsPlainRelativeForm(p) == ~PathIsAbsolute(p) /\ ~Includes(p, DotDot)

\* C9: validatePmdRulesetPath throws for every reference that contains a
\* ".." segment or is an absolute path, whatever the reference starts with.
C9_RejectsTraversalAndAbsolute ==
    (/\ vp.pc = "returned"
     /\ \/ HasDotDotSegment(Trim(vp.rulesetPath))
        \/ PathIsAbsolute(Trim(vp.rulesetPath)))
        => ~vp.result.ok

Settles(r) == run[r].pc # "done" /\ run'[r].pc = "done"

InProgress(r) == run[r].pc \notin {"idle", "done"}

Mentions(error, kind) == \E i \in 1..Len(error) : error[i] = kind

Started(r, proc) == \E i \in 1..Len(run[r].procs) : run[r].procs[i] = proc

\* C1 as stated: on every exit path the workspace of a call no longer
\* exists when the call resolves or rejects.
C1_WorkspaceGoneWhenSettled ==
    [][\A r \in Runs : Settles(r) => run'[r].tempDir \notin fsDirs']_vars

\* C1, amended: on every exit path the removal of the call's workspace is
\* attempted before the call resolves or rejects, and the workspace no
\* longer exists at that moment unless that removal itself failed, which
\* is only logged as a warning.
C1_RemovalAttemptedOnEveryExit ==
    [][\A r \in Runs : Settles(r) =>
          /\ run[r].pc = "rm"
          /\ run'[r].tempDir \in fsDirs' => run'[r].warned]_vars

C1_Witness ==
    \E r \in Runs :
        /\ run[r].pc = "done"
        /\ run[r].outcome = "rejected"
        /\ run[r].phase = "analyze"
        /\ ~run[r].warned
        /\ run[r].tempDir \notin fsDirs

\* C2: two analyzeCode runs in progress at the same time use different
\* workspace directories.
C2_DistinctWorkspaces ==
    \A r1, r2 \in Runs :
        (r1 # r2 /\ InProgress(r1) /\ InProgress(r2))
            => run[r1].tempDir # run[r2].tempDir

\* C3: every validation or security rejection of a run is raised before
\* any external process is started in it; the ruleset string
\* "custom/ok.xml,../bad.xml" fails with no process started.
C3_RejectionsBeforeAnyProcess ==
    \A r \in Runs :
        /\ (run[r].phase = "validate" \/ Mentions(run[r].error, "PathError"))
               => run[r].procs = <<>>
        /\ (run[r].language = "java" /\ run[r].option = RulesetOkBad)
               => (Mentions(run[r].error, "PathError") /\ run[r].procs = <<>>)

\* C4: when a step of sparseCheckout fails, the workspace has been removed
\* by the time the error reaches sparseCheckout's caller.
C4_FailedCheckoutLeavesNoWorkspace ==
    \A r \in Runs :
        run[r].phase = "checkout" => run[r].tempDir \notin fsDirs

\* the branch the fallback order names for a remote with these heads
ExpectedBranch(desiredBranch, heads) ==
    IF desiredBranch \in heads THEN desiredBranch
    ELSE IF BranchMain \in heads THEN BranchMain
    ELSE IF BranchMaster \in heads THEN BranchMaster
    ELSE NoBranch

\* C5: the resolved branch is the requested one if the remote has it, else
\* main, else master; with none of them the run fails with the
\* no-suitable-branch error and neither fetch nor checkout is run.
C5_BranchFallbackOrder ==
    \A r \in Runs :
        /\ run[r].pc = "git_fetch"
               => /\ run[r].branch = ExpectedBranch(DefaultBranch, run[r].remote)
                  /\ run[r].branch # NoBranch
        /\ Mentions(run[r].error, "NoSuitableBranch")
               => /\ ExpectedBranch(DefaultBranch, run[r].remote) = NoBranch
                  /\ ~Started(r, "git fetch")
                  /\ ~Started(r, "git checkout")

(***************************************************************************)
(* Claims about standardizeResults (checked under SpecStd).                *)
(***************************************************************************)
\* C11: every issue standardizeResults returns has a file that is not an
\* absolute path and does not resolve outside the workspace root when
\* joined to it, and a line number greater than 0.
C11_IssuesInsideWorkspace ==
    sr.pc = "returned" =>
        \A i \in 1..Len(sr.result.issues) :
            LET issue == sr.result.issues[i]
            IN /\ ~PathIsAbsolute(issue.file)
               /\ ~IsWindowsAbsoluteWithDrive(issue.file)
               /\ Within(WorkspaceRoot, <<issue.file>>, Cwd)
               /\ issue.line.defined
               /\ issue.line.n > 0

\* C12: the summary of a result is counted from its retained issues:
\* errorCount the issues of severity error, warningCount those of severity
\* warning, fileCount the distinct files among them.
C12_SummaryCountsRetainedIssues ==
    sr.pc = "returned" =>
        LET issues == sr.result.issues
        IN /\ sr.result.summary.errorCount =
                 Cardinality({i \in 1..Len(issues) : issues[i].severity = "error"})
           /\ sr.result.summary.warningCount =
                 Cardinality({i \in 1..Len(issues) : issues[i].severity = "warning"})
           /\ sr.result.summary.fileCount =
                 Cardinality({issues[i].file : i \in 1..Len(issues)})

\* the native values each tool documents
Recognised(tool) ==
    CASE tool = "eslint" -> {Value(<<"1">>), Value(<<"2">>)}
      [] tool = "pmd" -> {Value(<<"1">>), Value(<<"2">>), Value(<<"3">>),
                          Value(<<"4">>), Value(<<"5">>)}
      [] tool = "pylint" -> {Value(<<"e", "r", "r", "o", "r">>), Value(<<"f", "a", "t", "a", "l">>),
                             Value(<<"w", "a", "r", "n", "i", "n", "g">>), Value(<<"W", "a", "r", "n", "i", "n", "g">>),
                             Value(<<"c", "o", "n", "v", "e", "n", "t", "i", "o", "n">>), Value(<<"r", "e", "f", "a", "c", "t", "o", "r">>)}
      [] OTHER -> {Value(<<"E", "R", "R", "O", "R">>), Value(<<"W", "A", "R", "N", "I", "N", "G">>)}

\* C13: each adapter's severity mapping gives every native value, missing
\* and unrecognised ones included, exactly one of error, warning and info
\* without raising, and gives an unrecognised value info.
C13_SeverityMappingTotal ==
    sr.pc = "returned" =>
        \A i \in 1..Len(Flatten(sr.files)) :
            LET native == Flatten(sr.files)[i].native
            IN /\ nativeSeverity(sr.tool, native) \in {"error", "warning", "info"}
               /\ native \notin Recognised(sr.tool)
                      => nativeSeverity(sr.tool, native) = "info"

(***************************************************************************)
(* Claims about the adapters' error handling (checked under SpecExec).     *)
(***************************************************************************)
\* the JSON document each tool prints: ESLint and PyLint an array, PMD and
\* PHP_CodeSniffer an object
ToolDocument(tool) ==
    IF tool \in {"eslint", "pylint"} THEN <<"[", "]">> ELSE <<"{", "}">>

\* C14: when a tool's process exits non-zero but its stdout parses as the
\* tool's JSON output, the adapter returns the parsed output and raises
\* no error.
C14_NonZeroExitWithJsonSucceeds ==
    (ex.pc = "rejected" /\ Trim(ex.stdout) = ToolDocument(ex.tool))
        => ex.result = Returned(ToolDocument(ex.tool))

C14_Witness ==
    /\ ex.pc = "rejected"
    /\ ex.tool = "pmd"
    /\ ex.code = <<"1">>
    /\ ex.stdout = <<"{", "}">>
    /\ ex.result.ok

EslintNotFound ==
    \/ ex.code = <<"E", "N", "O", "E", "N", "T">>
    \/ Includes(ex.message, <<"e", "s", "l", "i", "n", "t", ":", " ", "n", "o", "t", " ", "f", "o", "u", "n", "d">>)

EslintConfigTrouble ==
    \E phrase \in {<<"c", "o", "n", "f", "i", "g", "u", "r", "a", "t", "i", "o", "n", " ", "e", "r", "r", "o", "r">>,
                    <<"c", "a", "n", "n", "o", "t", " ", "f", "i", "n", "d", " ", "m", "o", "d", "u", "l", "e">>,
                    <<"p", "a", "r", "s", "i", "n", "g", " ", "e", "r", "r", "o", "r">>} :
        Includes(ToLowerCase(ex.stderr), phrase)

\* the kind the precedence of C15 names, with what the error carries
EslintExpectedFailure ==
    IF EslintNotFound THEN Thrown("ExecutableNotFound")
    ELSE IF EslintConfigTrouble THEN ThrownWith("ConfigurationError", <<ex.stderr>>)
    ELSE ThrownWith("ExecutionFailed",
                    <<ex.code, IF ex.stderr = <<>> THEN <<"N", "/", "A">> ELSE ex.stderr,
                      IF ex.stdout = <<>> THEN <<"N", "/", "A">> ELSE ex.stdout>>)

LooksLikeJson(text) ==
    Trim(text) # <<>> /\ Head(Trim(text)) \in {"{", "["}

\* C15 as stated: when ESLint exits non-zero and its stdout is not
\* parseable, runESLint fails with executable-not-found, else configuration
\* error, else execution-failed carrying exit code, stderr and stdout.
C15_ThreeKindsByPrecedence ==
    (ex.pc = "rejected" /\ ex.tool = "eslint"
        /\ Trim(ex.stdout) \notin {<<"[", "]">>, <<"{", "}">>})
        => ex.result = EslintExpectedFailure

\* C15, amended: that precedence holds when the trimmed stdout does not
\* begin with "{" or "["; a stdout that begins with one of them but does
\* not parse makes runESLint fail with a parse-failure error instead,
\* whatever the error code and stderr are.
C15_ThreeKindsUnlessJsonLike ==
    (ex.pc = "rejected" /\ ex.tool = "eslint"
        /\ Trim(ex.stdout) \notin {<<"[", "]">>, <<"{", "}">>})
        => IF LooksLikeJson(ex.stdout)
           THEN ex.result = Thrown("ParseFailed")
           ELSE ex.result = EslintExpectedFailure

C15_Witness ==
    /\ ex.pc = "rejected"
    /\ ex.tool = "eslint"
    /\ ex.code = <<"E", "N", "O", "E", "N", "T">>
    /\ ex.stderr = <<"P", "a", "r", "s", "i", "n", "g", " ", "e", "r", "r", "o", "r", ":", " ", "y">>
    /\ ex.stdout = <<"N", "o", "t", " ", "J", "S", "O", "N">>
    /\ ex.result = Thrown("ExecutableNotFound")

(***************************************************************************)
(* Claims about runPMD's ruleset option (checked under SpecPmd).           *)
(***************************************************************************)
\* the comma-separated entries of a ruleset string, trimmed, empty ones left out
RECURSIVE EntriesFrom(_, _)
EntriesFrom(s, cur) ==
    IF s = <<>> THEN (IF Trim(cur) = <<>> THEN <<>> ELSE <<Trim(cur)>>)
    ELSE IF Head(s) = ","
         THEN (IF Trim(cur) = <<>> THEN <<>> ELSE <<Trim(cur)>>)
                  \o EntriesFrom(Tail(s), <<>>)
         ELSE EntriesFrom(Tail(s), Append(cur, Head(s)))

RulesetEntries(s) == EntriesFrom(s, <<>>)

\* C19: runPMD uses the default rulesets when the ruleset string is absent,
\* blank or without a non-empty entry; otherwise the non-empty entries,
\* trimmed, validated by validatePmdRulesetPath and joined by commas in
\* their order; if an entry is refused the call fails and PMD is not run.
C19_RulesetOption ==
    vp.pc \in {"pmd_exec", "pmd_thrown"} =>
        LET entries == RulesetEntries(vp.rulesetPath)
        IN IF entries = <<>>
           THEN vp.pc = "pmd_exec" /\ vp.result = Returned(DefaultRulesets)
           ELSE IF \E i \in 1..Len(entries) :
                      ~validatePmdRulesetPath(entries[i], vp.baseDir).ok
           THEN vp.pc = "pmd_thrown" /\ ~vp.result.ok
           ELSE /\ vp.pc = "pmd_exec"
                /\ vp.result = Returned(JoinWith(entries, ","))

C19_Witness ==
    /\ vp.pc = "pmd_exec"
    /\ vp.rulesetPath = <<" ", ",", "a">>
    /\ vp.result = Returned(<<"a">>)

(***************************************************************************)
(* Claims about one analyzeCode call (checked under SpecSolo).             *)
(***************************************************************************)
SupportedLanguages == {"javascript", "typescript", "java", "python", "php"}

\* C16: for every supported language, a run whose analyzer executable is
\* absent from the execution path fails with an executable-not-found error,
\* and its workspace has been removed when the failure is reported.
C16_AbsentExecutableReported ==
    \A r \in Runs :
        (run[r].exe = "absent" /\ run[r].language \in SupportedLanguages)
            => /\ Mentions(run[r].error, "ExecutableNotFound")
               /\ run[r].pc = "done" => run[r].tempDir \notin fsDirs

EslintRun(r) == run[r].language \in {"javascript", "typescript"}

StandardConfigNames == {<<".", "e", "s", "l", "i", "n", "t", "r", "c", ".", "j", "s">>, <<".", "e", "s", "l", "i", "n", "t", "r", "c", ".", "j", "s", "o", "n">>, <<".", "e", "s", "l", "i", "n", "t", "r", "c", ".", "y", "m", "l">>, <<".", "e", "s", "l", "i", "n", "t", "r", "c">>, <<"e", "s", "l", "i", "n", "t", ".", "c", "o", "n", "f", "i", "g", ".", "j", "s">>}

\* no custom config path was supplied (none that is non-empty once trimmed)
\* and the workspace holds none of the standard config files
DefaultConfigNeeded(r) ==
    /\ Trim(run[r].option) = <<>>
    /\ run[r].present \cap StandardConfigNames = {}

\* C17: runESLint writes the default .eslintrc.json if and only if no
\* non-empty custom config path was supplied and no standard config file
\* exists in the workspace; the write has completed when ESLint is
\* started, and there is at most one write in a run.
C17_DefaultConfigWrittenIffNeeded ==
    /\ [](\A r \in Runs : EslintRun(r) =>
            /\ run[r].writes <= 1
            /\ run[r].pc = "eslint_write" => DefaultConfigNeeded(r)
            /\ run[r].pc = "eslint_exec" =>
                   (run[r].writes = 1 <=> DefaultConfigNeeded(r)))
    /\ [][\A r \in Runs :
            (/\ run[r].pc # "eslint_exec"
             /\ run'[r].pc = "eslint_exec"
             /\ run'[r].writes = 1)
                => (run[r].pc = "eslint_write" /\ run[r].writes = 1)]_vars

C17_Witness ==
    \E r \in Runs :
        /\ run[r].pc = "eslint_exec"
        /\ run[r].writes = 1
        /\ run[r].present = {<<".", "e", "s", "l", "i", "n", "t", "r", "c", ".", "c", "j", "s">>}

\* C18: a custom ESLint config path that resolves outside the workspace
\* makes runESLint fail with a Path Error, with no default config written
\* and ESLint not started; one that resolves inside the workspace is
\* passed to ESLint as --config, as the resolved absolute path.
C18_CustomConfigConfined ==
    \A r \in Runs :
        (EslintRun(r) /\ Trim(run[r].option) # <<>>) =>
            IF Within(run[r].tempDir, <<Trim(run[r].option)>>, Cwd)
            THEN /\ run[r].pc = "eslint_exec"
                 /\ Started(r, "eslint")
                 /\ run[r].writes = 0
                 /\ run[r].cmdConfig =
                      AbsolutePathOf(JoinedComponents(run[r].tempDir,
                                                      <<Trim(run[r].option)>>, Cwd))
            ELSE /\ Mentions(run[r].error, "PathError")
                 /\ ~Started(r, "eslint")
                 /\ run[r].writes = 0

C18_Witness ==
    \E r \in Runs :
        /\ run[r].option = ConfigOutside
        /\ run[r].pc = "done"
        /\ Mentions(run[r].error, "PathError")
        /\ ~Started(r, "eslint")

RequiredPatterns == {".eslintrc*", ".prettierrc*", "package.json", "pom.xml",
                     "requirements.txt", "composer.json"}

\* C20: the pattern list written to the sparse-checkout rules file holds
\* every common manifest/config pattern, with language defaults and with
\* caller-supplied specificFiles alike.
C20_CommonPatternsAlwaysWritten ==
    \A r \in Runs :
        run[r].pc = "write_sparse" =>
            \A p \in RequiredPatterns :
                \E i \in 1..Len(run[r].patterns) : run[r].patterns[i] = p

(***************************************************************************)
(* Claims about normalizeAndRelativizePath (checked under SpecRel).        *)
(***************************************************************************)
\* a path the function treats as absolute, once its slashes are forward
AbsoluteInput(p) == PathIsAbsolute(p) \/ IsWindowsAbsoluteWithDrive(p)

\* the path is the base directory or lies below it
InsideWorkspace(p, base) == IsPrefixSeq(Components(base, Cwd), Components(p, Cwd))

\* the components of the path below the base directory
BelowBase(p, base) ==
    SubSeq(Components(p, Cwd), Len(Components(base, Cwd)) + 1, Len(Components(p, Cwd)))

\* C21: normalizeAndRelativizePath returns 'unknown' for a falsy path; for an
\* absolute path inside the base, the forward-slash path relative to the
\* base ('.' for the base itself); for an absolute path outside the base,
\* the basename when allowOutside is false and the forward-slash absolute
\* path when it is true.
C21_RelativizeContract ==
    np.pc = "returned" =>
        IF ~np.filePath.defined \/ np.filePath.text = <<>> THEN np.result = UnknownFile
        ELSE LET p    == SlashesForward(np.filePath.text)
                 base == SlashesForward(np.baseDirectory)
             IN AbsoluteInput(p) =>
                   IF InsideWorkspace(p, base)
                   THEN np.result = (IF BelowBase(p, base) = <<>> THEN <<".">>
                                     ELSE JoinWith(BelowBase(p, base), "/"))
                   ELSE np.result = (IF np.allowOutside THEN p ELSE PathBasename(p))

\* an issue with this file and a positive line passes the final filter
Survives(file) == Retained([file |-> file, line |-> [defined |-> TRUE, n |-> 1]])

\* the call relativized, as standardizeResults does, an absolute path inside
\* the base into the file of an issue that is retained
RoundTripCase ==
    /\ np.pc = "returned"
    /\ ~np.allowOutside
    /\ np.filePath.defined
    /\ AbsoluteInput(SlashesForward(np.filePath.text))
    /\ InsideWorkspace(SlashesForward(np.filePath.text), SlashesForward(np.baseDirectory))
    /\ Survives(np.result)

\* an absolute path in resolved form that holds no backslash
PlainResolved(p) == IsResolvedForm(p) /\ SlashesForward(p) = p

NodeModules == <<"n", "o", "d", "e", "_", "m", "o", "d", "u", "l", "e", "s">>

\* the file lies in a node_modules directory: a directory of its path has
\* that name
UnderNodeModules(file) ==
    \E i \in 1..(Len(Split(file, "/")) - 1) : Split(file, "/")[i] = NodeModules

\* the issues the tool reported, each with its relativized file and its line
ReportedIssues ==
    [i \in 1..Len(Flatten(sr.files)) |->
        [file |-> normalizeAndRelativizePath(Value(Flatten(sr.files)[i].path),
                                             WorkspaceRoot, FALSE),
         line |-> Flatten(sr.files)[i].line]]

ToBeDropped(issue) ==
    \/ issue.file = UnknownFile
    \/ UnderNodeModules(issue.file)
    \/ ~issue.line.defined
    \/ issue.line.n <= 0

ToBeKept(issue) == ~ToBeDropped(issue)

\* C26: standardizeResults drops an issue exactly when its file is missing
\* or 'unknown', its file lies under a node_modules directory, or its line
\* is missing or not greater than 0; all other issues are retained in the
\* order the tool reported them.
C26_FilterDropsExactly ==
    sr.pc = "returned" =>
        [i \in 1..Len(sr.result.issues) |->
            [file |-> sr.result.issues[i].file, line |-> sr.result.issues[i].line]]
        = SelectSeq(ReportedIssues, ToBeKept)

(***************************************************************************)
(* Claims about the cleanup of analyzeCode (SpecSolo).                     *)
(***************************************************************************)
\* C28: when removing the workspace fails during cleanup, the failure is
\* only a warning: the call resolves with the analysis result when the run
\* succeeded and rejects with the run's own error when it failed, and the
\* error is never the cleanup error.
C28_CleanupFailureOnlyWarns ==
    /\ [](\A r \in {1} :
            (run[r].pc = "done" /\ run[r].warned) =>
                /\ ~Mentions(run[r].error, "CleanupError")
                /\ run[r].outcome = (IF run[r].error = <<>> THEN "resolved" ELSE "rejected"))
    /\ [][\A r \in {1} :
            (run[r].pc = "rm" /\ run'[r].pc = "done") =>
                /\ run'[r].error = run[r].error
                /\ (run[r].phase = "none" <=> run'[r].outcome = "resolved")]_vars

C28_Witness ==
    /\ run[1].pc = "done"
    /\ run[1].warned
    /\ run[1].outcome = "resolved"
    /\ run[1].tempDir \in fsDirs

(***************************************************************************)
(* Claims about the branch handed to git fetch (SpecSolo).                 *)
(***************************************************************************)
\* C29: the branch _determineRemoteBranch returns, which is the one passed
\* to git fetch, is the name of a head of the remote: a requested branch
\* that is only a proper prefix of an existing branch name counts as absent.
C29_FetchedBranchExists ==
    \A r \in {1} :
        (run[r].pc = "git_fetch" \/ Started(r, "git fetch")) =>
            (run[r].branch # NoBranch => run[r].branch \in run[r].remote)

(***************************************************************************)
(* Claims about the order of the steps of one analyzeCode run (SpecSolo).  *)
(***************************************************************************)
\* the processes of sparseCheckout in the order the code starts them
GitSteps == <<"git init", "git remote add", "git config", "git ls-remote",
              "git fetch", "git checkout">>

AnalyzerSteps == {"eslint_access", "eslint_probe", "eslint_write", "eslint_exec",
                  "pmd_exec", "which_exec", "lint_exec"}

\* the position of a step in the run: 1 git init, 2 add remote, 3 enable
\* sparse mode and write the rules, 4 resolve branch, 5 fetch, 6 checkout,
\* 7 analyzer, 8 standardize (done on the way to 9), 9 attach file contents
StepRank(pc) ==
    CASE pc = "git_init" -> 1
      [] pc = "git_remote" -> 2
      [] pc \in {"git_config", "write_sparse"} -> 3
      [] pc = "ls_remote" -> 4
      [] pc = "git_fetch" -> 5
      [] pc = "git_checkout" -> 6
      [] pc \in AnalyzerSteps -> 7
      [] pc = "attach" -> 9
      [] OTHER -> 0

IsGitStep(proc) == \E i \in 1..Len(GitSteps) : GitSteps[i] = proc

\* the git processes a run has started so far
GitStarted(r) == SelectSeq(run[r].procs, IsGitStep)

\* C25: the steps of a run occur in one fixed order (git init, add remote,
\* sparse mode and rules, resolve branch, fetch, checkout, analyzer,
\* standardize, attach file contents); a step starts only when the
\* previous one succeeded, and no step is run twice.
C25_StepsInFixedOrder ==
    /\ [](\A r \in {1} :
            /\ IsPrefixSeq(GitStarted(r), GitSteps)
            /\ StepRank(run[r].pc) \in 1..2 => Len(GitStarted(r)) = StepRank(run[r].pc)
            /\ StepRank(run[r].pc) = 3 => Len(GitStarted(r)) = 3
            /\ StepRank(run[r].pc) \in 4..6 => Len(GitStarted(r)) = StepRank(run[r].pc)
            /\ StepRank(run[r].pc) \in 7..9 => Len(GitStarted(r)) = 6
            /\ Cardinality({i \in 1..Len(run[r].procs) :
                               run[r].procs[i] \in {"eslint", "pmd", "lint"}}) <= 1)
    /\ [][\A r \in {1} :
            (run'[r].pc # run[r].pc /\ StepRank(run'[r].pc) > 0) =>
                /\ run'[r].error = <<>>
                /\ IF StepRank(run[r].pc) = 0
                   THEN run[r].pc = "mkdir" /\ StepRank(run'[r].pc) = 1
                   ELSE \/ StepRank(run'[r].pc) = StepRank(run[r].pc)
                        \/ StepRank(run'[r].pc) = StepRank(run[r].pc) + 1
                        \/ StepRank(run[r].pc) = 7 /\ StepRank(run'[r].pc) = 9]_vars

C25_Witness ==
    /\ run[1].pc = "attach"
    /\ run[1].procs = GitSteps \o <<"which", "lint">>
    /\ run[1].error = <<>>

(***************************************************************************)
(* Claims about addFileContents (SpecAttach).                              *)
(***************************************************************************)
IssueFileSet == {fc.issues[i] : i \in 1..Len(fc.issues)}

SafeInWorkspace(file) == Within(WorkspaceRoot, <<file>>, Cwd)

\* C23: addFileContents attaches content only for files of retained
\* issues, each read through safeJoinPath against the workspace; a file
\* that cannot be read or whose path fails the path-safety check is left
\* out, the other files are still processed, and the call completes
\* without error.
C23_AttachOmitsAndContinues ==
    fc.pc = "returned" =>
        /\ ~fc.threw
        /\ fc.tried = IssueFileSet
        /\ fc.fileContents = {f \in IssueFileSet : SafeInWorkspace(f) /\ f \notin fc.unreadable}
        /\ fc.reads = {safeJoinPath(WorkspaceRoot, <<f>>, Cwd).value :
                           f \in {g \in IssueFileSet : SafeInWorkspace(g)}}
        /\ \A p \in fc.reads : InsideBase(p, WorkspaceRoot)

C23_Witness ==
    /\ fc.pc = "returned"
    /\ fc.issues = <<<<".", ".", "/", "x", ".", "j", "s">>, <<"a", ".", "j", "s">>, <<"s", "r", "c", "/", "b", ".", "j", "s">>>>
    /\ fc.unreadable = {<<"a", ".", "j", "s">>}
    /\ fc.fileContents = {<<"s", "r", "c", "/", "b", ".", "j", "s">>}

(***************************************************************************)
(* Claims about utils/sparseCheckout.js and scanRepository (SpecCheckout). *)
(***************************************************************************)
ShellMetacharacters ==
    {";", "|", "&", "$", "`", "<", ">", "(", ")", "{", "}", "!", "#", "*", "?",
     "~", "\\", "\"", "'", " ", "\t", "\n"}

ControlCharacters == {"\t", "\n", "\r"}

Separators == {"/", "."}

HasAny(s, chars) == \E i \in 1..Len(s) : s[i] \in chars

BadRepoUrl(repoUrl) == HasAny(repoUrl, ShellMetacharacters)

BadBranch(branch) ==
    \/ Includes(branch, <<".", ".">>)
    \/ HasAny(branch, {" "} \cup ControlCharacters)
    \/ branch # <<>> /\ (branch[1] \in Separators \/ branch[Len(branch)] \in Separators)

GlobAlphabet == AlphaNumeric \cup {"*", "?", "/", ".", "_", "-"}

BadPatterns(patterns) ==
    \/ ~patterns.isArray
    \/ \E i \in 1..Len(patterns.items) :
          \/ patterns.items[i].type # "string"
          \/ ~AllIn(patterns.items[i].text, GlobAlphabet)

ValidationErrors == {"InvalidRepositoryUrl", "InvalidBranchName", "InvalidPatterns"}

\* C24: sparseCheckout rejects, before it creates a directory or runs a
\* git command, every request whose URL holds a shell metacharacter, whose
\* branch holds '..', a space or a control character or begins or ends
\* with '/' or '.', or whose patterns are not an array of strings in the
\* glob alphabet.
C24_InvalidRequestsRejectedFirst ==
    (/\ co.pc # "idle"
     /\ \/ BadRepoUrl(co.repoUrl)
        \/ BadBranch(co.branch)
        \/ BadPatterns(co.patterns))
        => /\ co.pc = "rejected"
           /\ co.error \in ValidationErrors
           /\ co.dirs = {}
           /\ co.procs = <<>>

PmdLanguages == {<<"j", "a", "v", "a">>, <<"j", "a", "v", "a", "s", "c", "r", "i", "p", "t">>, <<"t", "y", "p", "e", "s", "c", "r", "i", "p", "t">>, <<"p", "y", "t", "h", "o", "n">>, <<"p", "h", "p">>}

\* C30: for a valid repository URL and a supported language, the
\* sparseCheckout call of scanRepository passes the argument validation,
\* and the value it resolves with gives scanRepository the checkout
\* directory and the file list, so that the scan does not fail on them.
C30_ScanCheckoutAccepted ==
    (/\ co.caller = "scanRepository"
     /\ repoUrlRegex(scan.repoUrl)
     /\ ToLowerCase(scan.language) \in PmdLanguages)
        => /\ co.error \notin ValidationErrors
           /\ scan.pc = "rejected" =>
                  scan.error[2] \notin ValidationErrors \cup {"TypeError"}

====
